---- MODULE Spec2Model ----
(***************************************************************************)
(* Model of the stored-procedure test framework:                           *)
(*   - core/comparison.py  StoredProcedureComparator (pure functions)      *)
(*   - core/executor.py    TestExecutor (state machine over a database     *)
(*                         collaborator, config/database.py)               *)
(*                                                                         *)
(* Cell values.  A cell is either null-like in the pandas sense (None and  *)
(* NaN: every test the code makes on them is `pd.isna(v) or v is None`, so *)
(* one value Null stands for both) or a string, kept as its sequence of    *)
(* characters so that str.strip() is computed, not assumed.                *)
(***************************************************************************)
EXTENDS Integers, Sequences, FiniteSets, TLC

\* ------------------------------------------------------------------ bounds
MaxCells == 2
MaxSets == 2
MaxTests == 2
MaxValueLen == 3
MaxRetries == 2
MaxTextLen == 6

\* ------------------------------------------------------- program constants
\* comparison.py:333  `if len(sample_differences) < 5`
SampleLimit == 5
\* executor.py:169 and 188: one call per procedure on the test's connection
CallsPerTest == 2

\* ------------------------------------------------------------------ values
Null == [null |-> TRUE, s |-> <<>>]
Str(chars) == [null |-> FALSE, s |-> chars]

Cells == {Null, Str(<<>>), Str(<<" ">>), Str(<<"a">>)}
TinyCells == {Null, Str(<<"a">>)}
Names == {"x", "y"}

Range(f) == {f[i] : i \in DOMAIN f}
Min(a, b) == IF a < b THEN a ELSE b

\* str.strip(): drop leading and trailing whitespace
IsSpace(c) == c = " "
RECURSIVE LStrip(_)
LStrip(s) == IF s # <<>> /\ IsSpace(Head(s)) THEN LStrip(Tail(s)) ELSE s
RECURSIVE RStrip(_)
RStrip(s) ==
    IF s # <<>> /\ IsSpace(s[Len(s)]) THEN RStrip(SubSeq(s, 1, Len(s) - 1)) ELSE s
Strip(s) == RStrip(LStrip(s))

\* `pd.isna(value) or value is None`
IsNullValue(v) == v.null
\* `isinstance(value, str) and value.strip() == ''`
IsBlankString(v) == ~v.null /\ Strip(v.s) = <<>>

\* comparison.py:64 _normalize_value
normalize_value(value) ==
    IF IsNullValue(value) \/ IsBlankString(value) THEN Str(<<>>) ELSE value

\* mutant: the null tests dropped and NaN compared as IEEE does (NaN != NaN)
values_equal_nan(val1, val2) ==
    IF IsNullValue(val1) \/ IsNullValue(val2) THEN FALSE
    ELSE normalize_value(val1) = normalize_value(val2)

\* comparison.py:70 _values_equal
values_equal(val1, val2) ==
    IF IsNullValue(val1) /\ IsNullValue(val2) THEN TRUE
    ELSE IF IsNullValue(val1) # IsNullValue(val2) THEN FALSE
    ELSE normalize_value(val1) = normalize_value(val2)

\* comparison.py:94 _format_value_for_display
format_value_for_display(value) ==
    IF IsNullValue(value) THEN "NULL"
    ELSE IF IsBlankString(value) THEN "(empty string)"
    ELSE "str(value)"

\* ------------------------------------------------------- difference records
\* The code's difference dicts have different keys per type; here every
\* record has all keys, the unused ones at their blank value.
BlankDiff ==
    [type |-> "", result_set_index |-> -1,
     original_count |-> -1, tuned_count |-> -1,
     original_columns |-> <<>>, tuned_columns |-> <<>>,
     column |-> "", different_rows |-> <<>>, sample_differences |-> <<>>,
     message |-> "", message_row |-> -1,
     message_original |-> "", message_tuned |-> ""]

\* comparison.py:13 ComparisonResult
ComparisonResult(eq, diffs, rsc, csm, dm, err) ==
    [is_equal |-> eq, differences |-> diffs, result_set_count_match |-> rsc,
     column_structure_match |-> csm, data_match |-> dm, error_message |-> err]

NoError == "None"

\* ---------------------------------------------------------------- pandas
\* pd.DataFrame(data, columns=columns) on a list of lists: an empty list gives
\* an empty frame; otherwise the rows are padded with None to the widest row
\* and the constructor raises ValueError unless that width is len(columns).
Max(a, b) == IF a > b THEN a ELSE b
RECURSIVE MaxWidth(_)
MaxWidth(data) ==
    IF data = <<>> THEN 0 ELSE Max(Len(Head(data)), MaxWidth(Tail(data)))

DataFrameRaises(data, columns) ==
    data # <<>> /\ MaxWidth(data) # Len(columns)

CellAt(data, r, j) == IF j <= Len(data[r]) THEN data[r][j] ELSE Null

\* df[column] followed by `iloc[:, 0]` when the label selects several
\* columns (comparison.py:301-308): the first column carrying the label of
\* position j.
ColumnPosition(columns, j) ==
    CHOOSE k \in 1..Len(columns) :
        /\ columns[k] = columns[j]
        /\ \A m \in 1..(k - 1) : columns[m] # columns[j]

\* `original_col.tolist()` (comparison.py:316)
ColumnValues(data, columns, j) ==
    [r \in 1..Len(data) |-> CellAt(data, r, ColumnPosition(columns, j))]

\* ------------------------------------------------------------- comparator
\* comparison.py:333-338
SampleAppend(samples, idx, orig_val, tuned_val) ==
    IF Len(samples) < SampleLimit
    THEN Append(samples, [row |-> idx, original |-> orig_val, tuned |-> tuned_val])
    ELSE samples

\* comparison.py:323-338, the loop over the rows of one column; row is the
\* 0-based row index of the code.
RECURSIVE RowLoop(_, _, _, _, _)
RowLoop(orig_values, tuned_values, row, diff_rows, samples) ==
    IF row >= Len(orig_values) THEN [diff_rows |-> diff_rows, samples |-> samples]
    ELSE IF ~values_equal(orig_values[row + 1], tuned_values[row + 1])
    THEN RowLoop(orig_values, tuned_values, row + 1,
                 Append(diff_rows, row),
                 SampleAppend(samples, row, orig_values[row + 1],
                              tuned_values[row + 1]))
    ELSE RowLoop(orig_values, tuned_values, row + 1, diff_rows, samples)

\* comparison.py:352-374, the record of one column
DataDifference(column, diff_rows, samples, result_set_index) ==
    IF samples # <<>>
    THEN [BlankDiff EXCEPT
            !.type = "data_difference",
            !.result_set_index = result_set_index,
            !.column = column,
            !.different_rows = diff_rows,
            !.sample_differences = samples,
            !.message = "row_column_value_differs",
            !.message_row = samples[1].row + 1,
            !.message_original = format_value_for_display(samples[1].original),
            !.message_tuned = format_value_for_display(samples[1].tuned)]
    ELSE [BlankDiff EXCEPT
            !.type = "data_difference",
            !.result_set_index = result_set_index,
            !.column = column,
            !.different_rows = diff_rows,
            !.sample_differences = samples,
            !.message = "rows_differ_in_column"]

\* comparison.py:352 `if diff_rows:`
ColumnRecords(column, loop, result_set_index) ==
    IF loop.diff_rows # <<>>
    THEN <<DataDifference(column, loop.diff_rows, loop.samples, result_set_index)>>
    ELSE <<>>

\* comparison.py:290 _detailed_data_comparison, the loop over
\* original_df.columns from position j on
RECURSIVE detailed_data_comparison(_, _, _, _, _)
detailed_data_comparison(original_data, tuned_data, columns, result_set_index, j) ==
    IF j > Len(columns) THEN <<>>
    ELSE ColumnRecords(columns[j],
                       RowLoop(ColumnValues(original_data, columns, j),
                               ColumnValues(tuned_data, columns, j), 0, <<>>, <<>>),
                       result_set_index)
         \o detailed_data_comparison(original_data, tuned_data, columns,
                                     result_set_index, j + 1)

\* comparison.py:232 _compare_data
compare_data(original_data, tuned_data, columns, result_set_index) ==
    IF Len(original_data) # Len(tuned_data)
    THEN <<[BlankDiff EXCEPT !.type = "row_count",
                             !.result_set_index = result_set_index,
                             !.original_count = Len(original_data),
                             !.tuned_count = Len(tuned_data),
                             !.message = "row_count_differs"]>>
    ELSE IF DataFrameRaises(original_data, columns)
            \/ DataFrameRaises(tuned_data, columns)
    THEN <<[BlankDiff EXCEPT !.type = "data_comparison_error",
                             !.result_set_index = result_set_index,
                             !.message = "data_comparison_error"]>>
    ELSE detailed_data_comparison(original_data, tuned_data, columns,
                                  result_set_index, 1)

\* comparison.py:225 _compare_columns
compare_columns(original_columns, tuned_columns, ignore_order) ==
    IF ignore_order
    THEN Range(original_columns) = Range(tuned_columns)
    ELSE original_columns = tuned_columns

\* the positions at which two equally long column lists differ
DifferingPositions(original_columns, tuned_columns) ==
    {i \in 1..Len(original_columns) : original_columns[i] # tuned_columns[i]}

Least(S) == CHOOSE k \in S : \A m \in S : k <= m

\* comparison.py:192-200, the message of a column_structure record
ColumnStructureMessage(base, original_columns, tuned_columns) ==
    IF Len(original_columns) # Len(tuned_columns)
    THEN [base EXCEPT !.message = "column_count_differs",
                      !.original_count = Len(original_columns),
                      !.tuned_count = Len(tuned_columns)]
    ELSE IF DifferingPositions(original_columns, tuned_columns) = {}
    THEN [base EXCEPT !.message = "column_structure_differs"]
    ELSE [base EXCEPT
            !.message = "column_name_differs",
            !.message_original =
                original_columns[Least(DifferingPositions(original_columns,
                                                          tuned_columns))],
            !.message_tuned =
                tuned_columns[Least(DifferingPositions(original_columns,
                                                       tuned_columns))]]

\* comparison.py:202-208
ColumnStructureDiff(original_columns, tuned_columns, result_set_index) ==
    ColumnStructureMessage(
        [BlankDiff EXCEPT !.type = "column_structure",
                          !.result_set_index = result_set_index,
                          !.original_columns = original_columns,
                          !.tuned_columns = tuned_columns],
        original_columns, tuned_columns)

\* comparison.py:215-223
DataOutcome(data_differences) ==
    [differences |-> data_differences,
     column_structure_match |-> TRUE,
     data_match |-> data_differences = <<>>]

\* mutant: the data of a result set compared although its columns mismatch
compare_single_result_set_no_skip(original, tuned, result_set_index, ignore_order) ==
    IF ~compare_columns(original.columns, tuned.columns, ignore_order)
    THEN [differences |-> <<ColumnStructureDiff(original.columns, tuned.columns,
                                                 result_set_index)>>
                          \o compare_data(original.data, tuned.data,
                                          original.columns, result_set_index),
          column_structure_match |-> FALSE,
          data_match |-> TRUE]
    ELSE DataOutcome(compare_data(original.data, tuned.data,
                                  original.columns, result_set_index))

\* comparison.py:172 _compare_single_result_set
compare_single_result_set(original, tuned, result_set_index, ignore_order) ==
    IF ~compare_columns(original.columns, tuned.columns, ignore_order)
    THEN [differences |-> <<ColumnStructureDiff(original.columns, tuned.columns,
                                                 result_set_index)>>,
          column_structure_match |-> FALSE,
          data_match |-> TRUE]
    ELSE DataOutcome(compare_data(original.data, tuned.data,
                                  original.columns, result_set_index))

\* comparison.py:161-170, the result of the `except Exception` branch
ErrorResult(message) == ComparisonResult(FALSE, <<>>, FALSE, FALSE, FALSE, message)

\* comparison.py:142-149, the loop over the zipped result sets from index i
\* on (1-based here; the code's result_set_index is i - 1).  acc carries
\* differences, column_structure_match, data_match and `raised`.
\* comparison.py:144-149
Accumulate(acc, result_diff) ==
    IF result_diff.differences # <<>>
    THEN [differences |-> acc.differences \o result_diff.differences,
          column_structure_match |->
              acc.column_structure_match /\ result_diff.column_structure_match,
          data_match |-> acc.data_match /\ result_diff.data_match,
          raised |-> FALSE]
    ELSE acc

RECURSIVE ResultSetLoop(_, _, _, _, _)
ResultSetLoop(originals, tuneds, i, ignore_order, acc) ==
    IF i > Len(originals) THEN acc
    ELSE IF ~originals[i].mapping \/ ~tuneds[i].mapping
    THEN [acc EXCEPT !.raised = TRUE]
    ELSE ResultSetLoop(originals, tuneds, i + 1, ignore_order,
            Accumulate(acc, compare_single_result_set(originals[i], tuneds[i],
                                                      i - 1, ignore_order)))

EmptyAcc ==
    [differences |-> <<>>, column_structure_match |-> TRUE,
     data_match |-> TRUE, raised |-> FALSE]

CountDiff(original_results, tuned_results) ==
    [BlankDiff EXCEPT !.type = "result_set_count",
                      !.original_count = Len(original_results.items),
                      !.tuned_count = Len(tuned_results.items),
                      !.message = "result_set_count_differs"]

\* mutant: the early return on a count mismatch dropped, the common prefix
\* of the two sequences compared as zip() would
ResultSetCountMismatchContinue(original_results, tuned_results, ignore_order) ==
    ComparisonResult(FALSE,
         <<CountDiff(original_results, tuned_results)>>
         \o ResultSetLoop(
                SubSeq(original_results.items, 1,
                       Min(Len(original_results.items), Len(tuned_results.items))),
                SubSeq(tuned_results.items, 1,
                       Min(Len(original_results.items), Len(tuned_results.items))),
                1, ignore_order, EmptyAcc).differences,
         FALSE, FALSE, FALSE, NoError)

\* comparison.py:123-136
ResultSetCountMismatch(original_results, tuned_results, ignore_order) ==
    ComparisonResult(FALSE, <<CountDiff(original_results, tuned_results)>>,
                     FALSE, FALSE, FALSE, NoError)

\* mutant: equality decided by the data flag alone
IsEqualDataOnly(acc) == acc.data_match

\* comparison.py:151 `is_equal = len(differences) == 0`
IsEqual(acc) == acc.differences = <<>>

Returned(value) == [raised |-> FALSE, exc |-> "", value |-> <<value>>]
Raised(exc) == [raised |-> TRUE, exc |-> exc, value |-> <<>>]

\* comparison.py:151-159, after the loop (or the exception it raised)
Aggregate(acc) ==
    IF acc.raised
    THEN Raised("AttributeError")
    ELSE Returned(ComparisonResult(IsEqual(acc), acc.differences, TRUE,
                                   acc.column_structure_match,
                                   acc.data_match, NoError))

\* comparison.py:121-159, the body of the try block.  An argument that is
\* not a list (None) makes len() raise TypeError; a result set that is not a
\* mapping makes .get() raise AttributeError.
compare_results_try(original_results, tuned_results, ignore_order) ==
    IF ~original_results.list \/ ~tuned_results.list
    THEN Raised("TypeError")
    ELSE IF Len(original_results.items) # Len(tuned_results.items)
    THEN Returned(ResultSetCountMismatch(original_results, tuned_results, ignore_order))
    ELSE Aggregate(ResultSetLoop(original_results.items, tuned_results.items, 1,
                                 ignore_order, EmptyAcc))

\* mutant: the handler catches TypeError only
CatchTypeError(body) ==
    IF body.raised /\ body.exc = "TypeError" THEN Returned(ErrorResult(body.exc)) ELSE body

compare_results_narrow_except(original_results, tuned_results, ignore_order) ==
    CatchTypeError(compare_results_try(original_results, tuned_results, ignore_order))

\* comparison.py:161-170 `except Exception as e`
CatchException(body) ==
    IF body.raised THEN Returned(ErrorResult(body.exc)) ELSE body

\* comparison.py:103 compare_results: the try block and its
\* `except Exception` handler (161-170).  The outcome is what the caller
\* sees: a returned ComparisonResult or a propagated exception.
compare_results(original_results, tuned_results, ignore_order) ==
    CatchException(compare_results_try(original_results, tuned_results, ignore_order))

\* compare_results when an exception that none of the modelled statements
\* raises (memory, logging) may occur inside the try block: `fault` says
\* whether it does; the handler at 161-170 catches it like any other
compare_results_under(original_results, tuned_results, ignore_order, fault) ==
    CatchException(IF fault THEN Raised("MemoryError")
                   ELSE compare_results_try(original_results, tuned_results, ignore_order))

\* ------------------------------------------------- comparator input domain
\* A result set as the database layer builds it (database.py:358-361):
\* {'columns': [...], 'data': [[...], ...]}; `mapping` is FALSE for an object
\* without .get().  A result list is wrapped the same way: `list` is FALSE
\* for None.
ResultSet(columns, data) == [mapping |-> TRUE, columns |-> columns, data |-> data]
NotAMapping == [mapping |-> FALSE, columns |-> <<>>, data |-> <<>>]
List(items) == [list |-> TRUE, items |-> items]
NoneList == [list |-> FALSE, items |-> <<>>]

\* result sets of w columns and n rows over the given cells
Shaped(w, n, cells) ==
    {ResultSet(c, d) : c \in [1..w -> Names], d \in [1..n -> [1..w -> cells]]}

\* every result set of at most MaxCells cells (a result set without columns
\* has no rows); result sets of three or more columns carry the two cell
\* values of TinyCells
ResultSets ==
    UNION {UNION {Shaped(w, n, IF w >= 3 THEN TinyCells ELSE Cells) :
                    n \in {m \in 0..MaxCells : w * m <= MaxCells /\ (w = 0 => m = 0)}} :
           w \in 0..MaxCells}

\* the result sets used in sequences of several: at most one cell
TinyResultSets == Shaped(0, 0, TinyCells) \cup Shaped(1, 0, TinyCells)
                  \cup Shaped(1, 1, TinyCells)

ResultLists ==
    {List(<<>>)} \cup {List(<<rs>>) : rs \in ResultSets}
    \cup UNION {{List(q) : q \in [1..k -> TinyResultSets]} : k \in 2..MaxSets}

MalformedLists ==
    {NoneList, List(<<NotAMapping>>)}
    \cup {List(<<rs, NotAMapping>>) : rs \in Shaped(1, 1, TinyCells)}

CompareInputs == ResultLists \cup MalformedLists

\* one-column result sets with more rows than a record keeps samples of
\* (comparison.py:333), each as a list of its own
TallRows == SampleLimit + 1
TallLists ==
    {List(<<rs>>) : rs \in {t \in Shaped(1, TallRows, TinyCells) : t.columns = <<"x">>}}

\* the argument pairs of a call
ComparePairs == (CompareInputs \X CompareInputs) \cup (TallLists \X TallLists)

NoResult == <<>>

\* ---------------------------------------------------------------- executor
\* Optional[str] values (original_error, tuned_error): <<>> is None, <<s>>
\* the string s.  A message built by an f-string is the sequence of its
\* parts; <<>> is the absent message.
NoneStr == <<>>
Truthy(opt) == opt # <<>> /\ opt[1] # ""

\* Names are sequences of characters, so that the patterns are computed.
\* re [a-zA-Z_] and [a-zA-Z0-9_] on the characters used here
IsIdentStart(c) == c \in {"a", "b", "p", "_"}
IsIdentChar(c) == IsIdentStart(c) \/ c \in {"1"}

\* database.py:296 re.match(r'^[a-zA-Z_][a-zA-Z0-9_]*$', key)
MatchesIdentifier(s) ==
    /\ s # <<>>
    /\ IsIdentStart(s[1])
    /\ \A i \in 2..Len(s) : IsIdentChar(s[i])

\* str.split(sep)
RECURSIVE SplitOn(_, _)
SplitOn(s, sep) ==
    IF \A i \in 1..Len(s) : s[i] # sep
    THEN <<s>>
    ELSE <<SubSeq(s, 1, Least({i \in 1..Len(s) : s[i] = sep}) - 1)>>
         \o SplitOn(SubSeq(s, Least({i \in 1..Len(s) : s[i] = sep}) + 1, Len(s)), sep)

\* database.py:279 the procedure-name pattern: an identifier followed by up
\* to three dotted identifiers
MatchesProcName(s) ==
    /\ Len(SplitOn(s, ".")) <= 4
    /\ \A k \in 1..Len(SplitOn(s, ".")) : MatchesIdentifier(SplitOn(s, ".")[k])

\* str.lstrip('@') (executor.py:160)
RECURSIVE LStripAt(_)
LStripAt(s) == IF s # <<>> /\ Head(s) = "@" THEN LStripAt(Tail(s)) ELSE s

\* models/test_case.py TestCase, the fields the executor reads; parameters
\* is the list of parameter names
TestCaseOf(id, original_sp_name, tuned_sp_name, parameters) ==
    [id |-> id, original_sp_name |-> original_sp_name,
     tuned_sp_name |-> tuned_sp_name, parameters |-> parameters]
TestCase(id) == TestCaseOf(id, <<"a">>, <<"b">>, <<<<"@", "p">>>>)
TestCases == [i \in 1..MaxTests |-> TestCase(i)]

\* test_case.py:136 validate(): the list of error messages
validate(tc) ==
    (IF tc.original_sp_name = <<>> THEN <<"original name missing">> ELSE <<>>)
    \o (IF tc.tuned_sp_name = <<>> THEN <<"tuned name missing">> ELSE <<>>)
    \o (IF tc.original_sp_name = tc.tuned_sp_name THEN <<"names equal">> ELSE <<>>)
    \o (IF Len(tc.parameters) # Cardinality(Range(tc.parameters))
        THEN <<"duplicate parameter names">> ELSE <<>>)

\* test cases with one validation error each: no original name, equal
\* names, a repeated parameter name, a procedure name and a parameter name
\* outside the identifier pattern
InvalidTestCases ==
    {TestCaseOf(0, <<>>, <<"b">>, <<>>),
     TestCaseOf(0, <<"a">>, <<"a">>, <<>>),
     TestCaseOf(0, <<"a">>, <<"b">>, <<<<"@", "p">>, <<"@", "p">>>>),
     TestCaseOf(0, <<"a">>, <<"b", ";">>, <<>>),
     TestCaseOf(0, <<"a">>, <<"b">>, <<<<"@", "1">>>>)}

\* executor.py:160 the keys of the parameter dictionary
ParamKeys(tc) == {LStripAt(tc.parameters[k]) : k \in 1..Len(tc.parameters)}

\* database.py:279-280 and 294-297 (331-334): execute_stored_procedure
\* raises ValueError before it builds the EXEC statement
ProcedureRejected(proc_name, tc) ==
    \/ ~MatchesProcName(proc_name)
    \/ \E key \in ParamKeys(tc) : ~MatchesIdentifier(key)

\* what one _execute_procedure_with_cache_clear call invokes on the
\* database: the cache clear when configured (executor.py:77-83), the
\* SELECT 1 of ensure_connected (database.py:251, 131-137) and, for accepted
\* names, the EXEC statement (database.py:323, 346)
ProcedureInvokes(clear_plan, proc_name, tc) ==
    (IF clear_plan THEN {"cache_clear"} ELSE {})
    \cup {"probe"}
    \cup (IF ProcedureRejected(proc_name, tc) THEN {} ELSE {"exec"})

\* what a procedure call can deliver: database.py:357-362 keeps a result set
\* only when it has columns and rows
RsA == ResultSet(<<"x">>, <<<<Str(<<"a">>)>>>>)
ProcResults == {<<>>, <<RsA>>}

\* str(exception) of a failed procedure call
DbErrors == {"Query timeout expired", "Invalid object name"}

\* str(exception) of the ValueError for a rejected name
RejectedError == "invalid name format"

\* executor.py:281 _format_error_message
format_error_message(error_msg) ==
    IF error_msg = "Query timeout expired"
    THEN "timeout error (Error: Query timeout expired)"
    ELSE IF error_msg = "Invalid object name"
    THEN "procedure error (Error: Invalid object name)"
    ELSE "Error: message"

\* executor.py:19 TestExecutionResult (timings and timestamps left out)
TestExecutionResult(tc, success, comparison_result, orig, tuned, order, message) ==
    [test_case |-> tc, success |-> success, comparison_result |-> comparison_result,
     original_results |-> orig, tuned_results |-> tuned,
     execution_order |-> order, error_message |-> message]

\* mutant: the cancelled result built without its message
CancelledResultNoMessage(tc) ==
    TestExecutionResult(tc, FALSE, <<>>, NoneList, NoneList, "original_first", <<>>)

\* executor.py:136-142, 178-184, 197-203
CancelledResult(tc) ==
    TestExecutionResult(tc, FALSE, <<>>, NoneList, NoneList, "original_first",
                        <<"test cancelled">>)

OrderTag(first) == IF first THEN "original_first" ELSE "tuned_first"

\* executor.py:210-220
BothFailedResult(tc, original_error, tuned_error) ==
    TestExecutionResult(tc, FALSE, <<>>, NoneList, NoneList, "original_first",
                        <<"original error: ", original_error[1],
                          "; tuned error: ", tuned_error[1]>>)

\* mutant: the failing side's results passed on as captured (None)
PartialResultRaw(tc, orig, tuned, original_error, tuned_error, first) ==
    TestExecutionResult(tc, TRUE, <<>>, orig, tuned, OrderTag(first),
        <<IF Truthy(original_error) THEN "original" ELSE "tuned",
          " procedure failed: ",
          IF Truthy(original_error) THEN original_error[1] ELSE tuned_error[1]>>)

\* executor.py:223-244
PartialResult(tc, orig, tuned, original_error, tuned_error, first) ==
    TestExecutionResult(tc, TRUE, <<>>,
        IF ~Truthy(original_error) THEN orig ELSE List(<<>>),
        IF ~Truthy(tuned_error) THEN tuned ELSE List(<<>>),
        OrderTag(first),
        <<IF Truthy(original_error) THEN "original" ELSE "tuned",
          " procedure failed: ",
          IF Truthy(original_error) THEN original_error[1] ELSE tuned_error[1]>>)

\* executor.py:246-279; an exception out of compare_results would go on
\* through execute_test
ComparedResult(tc, orig, tuned, first, cmp) ==
    IF cmp.raised
    THEN Raised(cmp.exc)
    ELSE Returned(TestExecutionResult(tc, TRUE, cmp.value, orig, tuned,
                                      OrderTag(first), <<>>))

\* executor.py:205-279, the analysis after the connection scope.  The
\* comparator is the executor's own (executor.py:61), ignore_column_order
\* as constructed.
execute_test_resolve(tc, orig, tuned, original_error, tuned_error, first, ignore_order, fault) ==
    IF Truthy(original_error) /\ Truthy(tuned_error)
    THEN Returned(BothFailedResult(tc, original_error, tuned_error))
    ELSE IF Truthy(original_error) \/ Truthy(tuned_error)
    THEN Returned(PartialResult(tc, orig, tuned, original_error, tuned_error, first))
    ELSE ComparedResult(tc, orig, tuned, first,
                        compare_results_under(orig, tuned, ignore_order, fault))

\* sum(1 for r in results if ...): the number of list positions that count
CountOf(positions) == Cardinality(positions)

\* executor.py:344-353 generate_summary_report, the counts that go into the
\* report; `r.comparison_result` is truthy exactly when it is not None, and
\* for an empty list the report has no counts (346-347)
generate_summary_report(rs) ==
    IF rs = <<>> THEN [counted |-> FALSE, total_tests |-> 0, successful_tests |-> 0,
                       passed_tests |-> 0, failed_tests |-> 0, error_tests |-> 0]
    ELSE [counted |-> TRUE,
          total_tests |-> Len(rs),
          successful_tests |-> CountOf({i \in 1..Len(rs) : rs[i].success}),
          passed_tests |->
              CountOf({i \in 1..Len(rs) :
                          /\ rs[i].success
                          /\ rs[i].comparison_result # <<>>
                          /\ rs[i].comparison_result[1].is_equal}),
          failed_tests |->
              CountOf({i \in 1..Len(rs) :
                          /\ rs[i].success
                          /\ rs[i].comparison_result # <<>>
                          /\ ~rs[i].comparison_result[1].is_equal}),
          error_tests |-> CountOf({i \in 1..Len(rs) : ~rs[i].success})]

\* executor.py:246-251: the comparator is invoked only when both succeeded
ComparatorInvoked(original_error, tuned_error) ==
    ~Truthy(original_error) /\ ~Truthy(tuned_error)

\* ---------------------------------------------------------- database layer
\* A parameter value: a str (its characters), None or a number.
StrValue(chars) == [kind |-> "str", s |-> chars]
NoneValue == [kind |-> "none", s |-> <<>>]
IntValue == [kind |-> "int", s |-> <<"1">>]
NoValue == [kind |-> "absent", s |-> <<>>]

ValueChars == {"N", "'"}
StrValues == {StrValue(c) : c \in UNION {[1..n -> ValueChars] : n \in 0..MaxValueLen}}
ParamValues == StrValues \cup {NoneValue, IntValue}

\* str.startswith, str.endswith
StartsWith(s, prefix) ==
    Len(s) >= Len(prefix) /\ SubSeq(s, 1, Len(prefix)) = prefix
EndsWith(s, suffix) ==
    Len(s) >= Len(suffix) /\ SubSeq(s, Len(s) - Len(suffix) + 1, Len(s)) = suffix

\* value.replace("'", "''") (database.py:306)
RECURSIVE EscapeQuotes(_)
EscapeQuotes(s) ==
    IF s = <<>> THEN <<>>
    ELSE (IF Head(s) = "'" THEN <<"'", "'">> ELSE <<Head(s)>>) \o EscapeQuotes(Tail(s))

\* database.py:300-312 formatted_value
format_value(value) ==
    IF value.kind = "str" /\ StartsWith(value.s, <<"N", "'">>) /\ EndsWith(value.s, <<"'">>)
    THEN value.s
    ELSE IF value.kind = "str"
    THEN <<"N", "'">> \o EscapeQuotes(value.s) \o <<"'">>
    ELSE IF value.kind = "none"
    THEN <<"N", "U", "L", "L">>
    ELSE value.s

\* database.py:314-318 exec_statement for one parameter: EXEC proc @key=text
\* [WITH RECOMPILE]
exec_statement(proc_name, key, value, use_recompile) ==
    [proc |-> proc_name, key |-> key, text |-> format_value(value),
     recompile |-> use_recompile]

\* What the cursor delivers after the EXEC, one item per fetch: a result
\* set (its columns and rows, possibly no rows), or a pyodbc.Error raised
\* by fetchall()/nextset().
Delivery(columns, rows) == [error |-> FALSE, columns |-> columns, rows |-> rows]
DeliveryError == [error |-> TRUE, columns |-> <<>>, rows |-> <<>>]
DeliveryItems ==
    {Delivery(<<"x">>, <<<<Str(<<"a">>)>>>>), Delivery(<<"x">>, <<>>), DeliveryError}
Deliveries == UNION {[1..n -> DeliveryItems] : n \in 0..MaxSets}

\* database.py:351-368 the fetch loop from item i on: a set is kept when it
\* has columns and rows, pyodbc.Error ends the loop
RECURSIVE fetch_results(_, _)
fetch_results(items, i) ==
    IF i > Len(items) THEN <<>>
    ELSE IF items[i].error THEN <<>>
    ELSE (IF items[i].columns # <<>> /\ items[i].rows # <<>>
          THEN <<ResultSet(items[i].columns, items[i].rows)>>
          ELSE <<>>)
         \o fetch_results(items, i + 1)

\* mutant: the loop goes on when this was the last attempt
RetryAgainOffByOne(attempt_, max_retries) == attempt_ < max_retries

\* database.py:262 `if attempt < max_retries - 1`
RetryAgain(attempt_, max_retries) == attempt_ < max_retries - 1

\* the entries of db_trace
AttemptOk == [kind |-> "attempt", ok |-> TRUE, error |-> ""]
AttemptFailed(e) == [kind |-> "attempt", ok |-> FALSE, error |-> e]
Sleep == [kind |-> "sleep", ok |-> FALSE, error |-> ""]

\* str(e) of a failed attempt: ensure_connected() gave False
\* (database.py:251-252), or execute_stored_procedure raised
NotConnectedError == "cannot establish connection"
StatementErrors == {"Query timeout expired"}

\* ------------------------------------------------------- parameter parser
\* src/utils/parameter_parser.py ParameterParser.  Parameter strings are
\* sequences of characters.

\* the quote characters of _split_parameters (parameter_parser.py:142)
QuoteChars == {"'", "\""}

\* mutant: a quote toggles whatever precedes it
TogglesQuoteEscaped(s, i) == s[i] \in QuoteChars

\* parameter_parser.py:142 `char in ["'", '"'] and (i == 0 or
\* param_string[i-1] != '\\')`
TogglesQuote(s, i) == s[i] \in QuoteChars /\ (i = 1 \/ s[i - 1] # "\\")

\* parameter_parser.py:142-154 one iteration of the loop on the locals
\* parts, current, in_quotes, quote_char: a quote that toggles opens a span
\* when none is open and closes it when it equals quote_char, and is appended
\* to current like every character but a comma outside a span
SplitChar(st, c, toggles) ==
    IF toggles
    THEN [st EXCEPT !.in_quotes = IF st.in_quotes THEN c # st.quote_char ELSE TRUE,
                    !.quote_char = IF ~st.in_quotes THEN c
                                   ELSE IF c = st.quote_char THEN "None" ELSE @,
                    !.current = Append(@, c)]
    ELSE IF c = "," /\ ~st.in_quotes
         THEN [st EXCEPT !.parts = Append(@, st.current), !.current = <<>>]
         ELSE [st EXCEPT !.current = Append(@, c)]

\* parameter_parser.py:134-159 _split_parameters: the loop over the
\* characters (141), then `if current: parts.append(''.join(current))`
split_parameters(param_string) ==
    LET RECURSIVE Scan(_, _)
        Scan(i, st) ==
            IF i > Len(param_string) THEN st
            ELSE Scan(i + 1, SplitChar(st, param_string[i], TogglesQuote(param_string, i)))
        Final == Scan(1, [parts |-> <<>>, current |-> <<>>,
                          in_quotes |-> FALSE, quote_char |-> "None"])
    IN  IF Final.current # <<>> THEN Append(Final.parts, Final.current) ELSE Final.parts

\* re \d, \w and str.upper on the characters used here
IsDigitChar(c) == c \in {"0", "1", "2", "3", "4", "5", "6", "7", "8", "9"}
UpperOf ==
    [a |-> "A", c |-> "C", e |-> "E", l |-> "L", n |-> "N",
     p |-> "P", q |-> "Q", s |-> "S", u |-> "U", x |-> "X"]
Upper(s) == [i \in 1..Len(s) |-> IF s[i] \in DOMAIN UpperOf THEN UpperOf[s[i]] ELSE s[i]]
IsWordChar(c) ==
    c \in DOMAIN UpperOf \/ c \in Range(UpperOf) \/ IsDigitChar(c) \/ c = "_"

\* the length of the longest run of characters at i.. that are in a class:
\* what \w+, \s*, \S+ and the zeros of a number consume
Run(s, i, class) ==
    LET In(c) == CASE class = "word" -> IsWordChar(c)
                   [] class = "space" -> IsSpace(c)
                   [] class = "nonspace" -> ~IsSpace(c)
                   [] class = "zero" -> c = "0"
    IN  Least({k \in 0..Len(s) : i + k > Len(s) \/ ~In(s[i + k])})

\* a number's text without its sign (-? of the patterns)
Unsigned(s) == IF s # <<>> /\ s[1] = "-" THEN Tail(s) ELSE s

\* parameter_parser.py:24-30 re.match(TYPE_PATTERNS[pattern], v)
MatchesPattern(pattern, v) ==
    LET IsDate(d) ==
            /\ Len(d) = 10
            /\ \A i \in 1..10 : IF i \in {5, 8} THEN d[i] = "-" ELSE IsDigitChar(d[i])
        IsTime(t) ==
            /\ Len(t) = 8
            /\ \A i \in 1..8 : IF i \in {3, 6} THEN t[i] = ":" ELSE IsDigitChar(t[i])
        Dots == {i \in 1..Len(Unsigned(v)) : Unsigned(v)[i] = "."}
    IN  CASE pattern = "int" ->
                \* r'^-?\d+$'
                /\ Unsigned(v) # <<>>
                /\ \A i \in 1..Len(Unsigned(v)) : IsDigitChar(Unsigned(v)[i])
          [] pattern = "float" ->
                \* r'^-?\d+\.\d+$'
                /\ Cardinality(Dots) = 1
                /\ 1 \notin Dots
                /\ Len(Unsigned(v)) \notin Dots
                /\ \A i \in (1..Len(Unsigned(v))) \ Dots : IsDigitChar(Unsigned(v)[i])
          [] pattern = "date" ->
                \* r'^\d{4}-\d{2}-\d{2}$'
                IsDate(v)
          [] pattern = "datetime" ->
                \* r'^\d{4}-\d{2}-\d{2}\s+\d{2}:\d{2}:\d{2}$'
                /\ Len(v) >= 19
                /\ IsDate(SubSeq(v, 1, 10))
                /\ Run(v, 11, "space") = Len(v) - 18
                /\ IsTime(SubSeq(v, Len(v) - 7, Len(v)))

\* parameter_parser.py:186 int(value_str), kept as the text str() gives for
\* it: no leading zeros, no sign on zero
IntOf(v) ==
    LET digits == SubSeq(Unsigned(v),
                         Min(Run(Unsigned(v), 1, "zero") + 1, Len(Unsigned(v))),
                         Len(Unsigned(v)))
    IN  [kind |-> "int",
         s |-> IF digits = <<"0">> THEN digits
               ELSE SubSeq(v, 1, Len(v) - Len(Unsigned(v))) \o digits]

\* parameter_parser.py:188 float(value_str), kept as the text str() gives
\* for it (235): the sign, the integer part without leading zeros, the
\* fraction without trailing zeros; below 1e-4 the digits of the mantissa
\* and e-NN
FloatOf(v) ==
    LET Digit == <<"0", "1", "2", "3", "4", "5", "6", "7", "8", "9">>
        u == Unsigned(v)
        sign == SubSeq(v, 1, Len(v) - Len(u))
        dot == CHOOSE i \in 1..Len(u) : u[i] = "."
        int_part == SubSeq(u, Min(Run(u, 1, "zero") + 1, dot - 1), dot - 1)
        last == CHOOSE j \in (dot + 1)..Len(u) :
                    /\ j = dot + 1 \/ u[j] # "0"
                    /\ \A m \in (j + 1)..Len(u) : u[m] = "0"
        frac == SubSeq(u, dot + 1, last)
        zeros == Run(frac, 1, "zero")
    IN  [kind |-> "float",
         s |-> IF int_part = <<"0">> /\ frac # <<"0">> /\ zeros >= 4
               THEN sign \o <<frac[zeros + 1]>>
                    \o (IF Len(frac) > zeros + 1
                        THEN <<".">> \o SubSeq(frac, zeros + 2, Len(frac)) ELSE <<>>)
                    \o <<"e", "-", Digit[((zeros + 1) \div 10) + 1],
                         Digit[((zeros + 1) % 10) + 1]>>
               ELSE sign \o int_part \o <<".">> \o frac]

\* parameter_parser.py:162-191 _infer_value_and_type, as the pair
\* (value, data_type)
infer_value_and_type(value_str) ==
    LET v == Strip(value_str)
    IN  IF Upper(v) = <<"N", "U", "L", "L">> THEN <<NoneValue, "varchar">>
        ELSE IF StartsWith(v, <<"N", "'">>) /\ EndsWith(v, <<"'">>)
        THEN <<StrValue(SubSeq(v, 3, Len(v) - 1)), "nvarchar">>
        ELSE IF \/ StartsWith(v, <<"'">>) /\ EndsWith(v, <<"'">>)
                \/ StartsWith(v, <<"\"">>) /\ EndsWith(v, <<"\"">>)
        THEN <<StrValue(SubSeq(v, 2, Len(v) - 1)), "varchar">>
        ELSE IF MatchesPattern("datetime", v) THEN <<StrValue(v), "datetime">>
        ELSE IF MatchesPattern("date", v) THEN <<StrValue(v), "date">>
        ELSE IF MatchesPattern("int", v) THEN <<IntOf(v), "int">>
        ELSE IF MatchesPattern("float", v) THEN <<FloatOf(v), "float">>
        ELSE <<StrValue(v), "varchar">>

\* parameter_parser.py:105-129 the body of the loop for one stripped part:
\* the TestParameter it appends, if any.  re.match(r'^(@?\w+)\s*=\s*(.+)$')
\* reaches the '=' at equals_at; group 1 ends at name_end, and the strip of
\* group 2 is the strip of what follows the '='
ParsePart(part) ==
    LET at == IF part # <<>> /\ part[1] = "@" THEN 1 ELSE 0
        name_end == at + Run(part, at + 1, "word")
        equals_at == name_end + Run(part, name_end + 1, "space") + 1
        inferred == infer_value_and_type(SubSeq(part, equals_at + 1, Len(part)))
    IN  IF \/ part = <<>>
           \/ name_end = at
           \/ equals_at >= Len(part)
           \/ part[equals_at] # "="
        THEN <<>>
        ELSE <<[name |-> (IF at = 1 THEN <<>> ELSE <<"@">>) \o SubSeq(part, 1, name_end),
                value |-> inferred[1],
                data_type |-> inferred[2]]>>

\* parameter_parser.py:98-131 _parse_key_value_format
parse_key_value_format(param_string) ==
    LET RECURSIVE Loop(_)
        Loop(param_parts_) ==
            IF param_parts_ = <<>> THEN <<>>
            ELSE ParsePart(Strip(Head(param_parts_))) \o Loop(Tail(param_parts_))
    IN  Loop(split_parameters(param_string))

\* parameter_parser.py:68-69 re.sub(r'^EXEC\s+\S+\s*', '', param_string,
\* flags=re.IGNORECASE) on a string whose upper case starts with EXEC
RemoveExec(s) ==
    LET name_at == 5 + Run(s, 5, "space")
        name_end == name_at + Run(s, name_at, "nonspace")
    IN  IF name_at > 5 /\ name_end > name_at
        THEN SubSeq(s, name_end + Run(s, name_end, "space"), Len(s))
        ELSE s

\* parameter_parser.py:73-94 _parse_json_format on '[]', the JSON text among
\* the inputs: json.loads gives the empty list
parse_json_format(json_string) == <<>>

\* parameter_parser.py:42-71 parse_parameters
parse_parameters(param_string) ==
    LET s == Strip(param_string)
    IN  IF s = <<>> THEN <<>>
        ELSE IF StartsWith(s, <<"[">>) /\ EndsWith(s, <<"]">>) THEN parse_json_format(s)
        ELSE IF StartsWith(Upper(s), <<"E", "X", "E", "C">>)
        THEN parse_key_value_format(RemoveExec(s))
        ELSE parse_key_value_format(s)

\* parameter_parser.py:227-235 the text of one parameter
ParamString(param) ==
    IF param.value = NoneValue THEN param.name \o <<"=", "N", "U", "L", "L">>
    ELSE IF param.data_type \in {"varchar", "nvarchar", "char", "nchar", "text", "ntext"}
    THEN param.name \o <<"=", "'">> \o EscapeQuotes(param.value.s) \o <<"'">>
    ELSE param.name \o <<"=">> \o param.value.s

\* parameter_parser.py:213-238 parameters_to_exec_string
parameters_to_exec_string(sp_name, parameters) ==
    LET RECURSIVE Join(_)
        Join(k) ==
            IF k = Len(parameters) THEN ParamString(parameters[k])
            ELSE ParamString(parameters[k]) \o <<",", " ">> \o Join(k + 1)
    IN  IF parameters = <<>> THEN <<"E", "X", "E", "C", " ">> \o sp_name
        ELSE <<"E", "X", "E", "C", " ">> \o sp_name \o <<" ">> \o Join(1)

\* the texts given to the parser.  Texts for the splitter are written with
\* its special characters and one ordinary character
SplitTexts == UNION {[1..n -> {",", "'", "\"", "\\", "a"}] : n \in 0..MaxTextLen}

\* key=value texts: one parameter @p whose value is written with the
\* characters the type inference looks at or is a value of one of the types,
\* alone or followed by a second parameter
KeyValueTexts ==
    LET Values ==
            UNION {[1..n -> {"N", "'", "a", "\\", "1", "."}] : n \in 1..MaxValueLen}
            \cup {<<"N", "U", "L", "L">>, <<"n", "u", "l", "l">>, <<"-", "0", "1">>,
                  <<"0", ".", "0", "0", "0", "0", "1", "0">>, <<"-", "0", ".", "5", "0">>,
                  <<"2", "0", "2", "4", "-", "0", "1", "-", "3", "1">>,
                  <<"2", "0", "2", "4", "-", "0", "1", "-", "3", "1", " ",
                    "1", "0", ":", "0", "0", ":", "0", "0">>,
                  <<"\"", "a", "'", "\"">>, <<"'", "a", ",", "a", "'">>}
    IN  {<<"@", "p", "=">> \o v : v \in Values}
        \cup {<<"@", "p", "=">> \o v \o <<",", " ", "@", "q", "=", "1">> : v \in Values}
        \cup {<<"p", " ", "=", " ", "1", ",">>, <<" ", "@", "p", "=", "1", " ">>}

\* with the other two formats parse_parameters accepts
\* (parameter_parser.py:46-48)
ParserTexts ==
    SplitTexts \cup KeyValueTexts
    \cup {<<"[", "]">>, <<"e", "x", "e", "c", " ", "s", "p", " ", "@", "p", "=", "1">>}

\* --------------------------------------------------------------- variables
VARIABLES
    \* one call of StoredProcedureComparator.compare_results
    ignore_column_order,   \* comparator.ignore_column_order
    cmp_original,          \* argument original_results
    cmp_tuned,             \* argument tuned_results
    cmp_result,            \* <<>> before the call, <<ComparisonResult>> after
    cmp_raised,            \* the call propagated an exception to its caller
    \* TestExecutor
    is_cancelled,          \* TestExecutor.is_cancelled
    pc,                    \* where the thread running the executor stands
    mode,                  \* "single": execute_test called directly; "batch"
    test_cases,            \* argument of execute_multiple_tests
    idx,                   \* loop index i of execute_multiple_tests
    results,               \* list `results` of execute_multiple_tests
    test_case,             \* argument of execute_test, <<>> outside a call
    original_results,      \* locals of execute_test
    tuned_results,
    original_error,
    tuned_error,
    execute_original_first,
    connection_open,       \* the test's DatabaseConnection holds a connection
    calls,                 \* procedure invocations received by the database
                           \* during the current test, in order
    outcome,               \* how the last public call ended
    result,                \* <<TestExecutionResult>> of the last execute_test,
                           \* <<>> while a call is running
    return_site,           \* the return statement that produced it
    clear_execution_plan,          \* TestExecutor.clear_execution_plan
    use_new_connection_per_test,   \* TestExecutor.use_new_connection_per_test
    invoked,               \* what the current test has invoked on its
                           \* collaborators (database, comparator) so far
    connections,           \* connections opened since the public call began
    connection_abandoned,  \* a connect() of the current public call raised
                           \* after pyodbc.connect had opened a connection
    progress_callback,     \* a progress_callback was passed to the batch call
    progress,              \* the calls progress_callback(current, total)
                           \* received during the batch call, in order
    \* DatabaseConnection.execute_stored_procedure_with_retry
    max_retry_count,       \* config.max_retry_count
    db_pc,                 \* "idle", "attempt" (top of the loop body), "sleep"
    db_call,               \* calls made on this connection so far
    attempt,               \* loop variable `attempt`
    db_trace,              \* attempts and waits of the current call, in order
    db_prev,               \* attempts and waits of the call before it
    db_outcome,            \* <<>> while running, else what the call returned
                           \* or raised
    sp_value,              \* the value of the parameter passed to the call
    statement,             \* <<>> or the EXEC statement last sent
    delivered,             \* what the cursor delivered to the last fetch loop
    \* ParameterParser, one text taken through the parser
    param_text,            \* the text a caller holds
    parser_pc,             \* "idle", "start", "split", "parsed", "built",
                           \* "reparsed"
    param_parts,           \* what _split_parameters returned for it
    parsed,                \* what parse_parameters returned for it
    exec_string,           \* what parameters_to_exec_string built from parsed
    reparsed               \* what parse_parameters returned for exec_string

cmp_vars == <<ignore_column_order, cmp_original, cmp_tuned, cmp_result, cmp_raised>>
locals == <<original_results, tuned_results, original_error, tuned_error,
            execute_original_first>>
exec_vars == <<is_cancelled, pc, mode, test_cases, idx, results, test_case,
               original_results, tuned_results, original_error, tuned_error,
               execute_original_first, connection_open, calls, outcome, result,
               return_site, clear_execution_plan, use_new_connection_per_test,
               invoked, connections, connection_abandoned,
               progress_callback, progress>>
cb_vars == <<progress_callback, progress>>
conf_vars == <<clear_execution_plan, use_new_connection_per_test>>
db_vars == <<max_retry_count, db_pc, db_call, attempt, db_trace, db_prev, db_outcome,
             sp_value, statement, delivered>>
parser_vars == <<param_text, parser_pc, param_parts, parsed, exec_string, reparsed>>
vars == <<cmp_vars, exec_vars, db_vars, parser_vars>>

\* TestExecutor.__init__ (executor.py:61-62); no call in progress
ExecIdle ==
    /\ is_cancelled = FALSE
    /\ pc = "idle"
    /\ mode = "none"
    /\ test_cases = <<>>
    /\ idx = 0
    /\ results = <<>>
    /\ test_case = <<>>
    /\ original_results = NoneList
    /\ tuned_results = NoneList
    /\ original_error = NoneStr
    /\ tuned_error = NoneStr
    /\ execute_original_first = TRUE
    /\ connection_open = FALSE
    /\ calls = <<>>
    /\ outcome = "none"
    /\ result = <<>>
    /\ return_site = "none"
    /\ invoked = {}
    /\ connections = 0
    /\ connection_abandoned = FALSE
    /\ progress_callback = FALSE
    /\ progress = <<>>

\* TestExecutor(db_config), both flags at their defaults (executor.py:57-60)
ExecInit ==
    /\ clear_execution_plan = FALSE
    /\ use_new_connection_per_test = FALSE
    /\ ExecIdle

\* a DatabaseConnection on which no procedure has been called
\* (database.py:66-71)
DbIdle ==
    /\ db_pc = "idle"
    /\ db_call = 0
    /\ attempt = 0
    /\ db_trace = <<>>
    /\ db_prev = <<>>
    /\ db_outcome = <<>>
    /\ sp_value = NoValue
    /\ statement = <<>>
    /\ delivered = <<>>

\* ParameterParser holds no state (class methods only); no text is being
\* parsed
ParserIdle ==
    /\ param_text = <<>>
    /\ parser_pc = "idle"
    /\ param_parts = <<>>
    /\ parsed = <<>>
    /\ exec_string = <<>>
    /\ reparsed = <<>>

CompareInit ==
    /\ max_retry_count = 1
    /\ DbIdle
    /\ ParserIdle
    /\ ignore_column_order \in BOOLEAN
    /\ \E pair \in ComparePairs :
        /\ cmp_original = pair[1]
        /\ cmp_tuned = pair[2]
    /\ cmp_result = NoResult
    /\ cmp_raised = FALSE
    /\ ExecInit

Called == cmp_result # NoResult \/ cmp_raised

CompareReturn(call) ==
    /\ cmp_result' = call.value
    /\ cmp_raised' = call.raised

\* the caller invokes compare_results(original_results, tuned_results)
CompareCall ==
    /\ ~Called
    /\ CompareReturn(compare_results(cmp_original, cmp_tuned, ignore_column_order))
    /\ UNCHANGED <<ignore_column_order, cmp_original, cmp_tuned>>
    /\ UNCHANGED exec_vars
    /\ UNCHANGED <<db_vars, parser_vars>>

CompareNext == CompareCall

SpecCompare == CompareInit /\ [][CompareNext]_vars

\* ------------------------------------------------------- executor actions
\* StoredProcedureComparator.__init__ (comparison.py:59-62) and an executor
\* constructed with either value of its two flags (executor.py:57-62), on
\* which nothing has been called
Init ==
    /\ max_retry_count = 1
    /\ DbIdle
    /\ ParserIdle
    /\ ignore_column_order = FALSE
    /\ cmp_original = List(<<>>)
    /\ cmp_tuned = List(<<>>)
    /\ cmp_result = NoResult
    /\ cmp_raised = FALSE
    /\ clear_execution_plan \in BOOLEAN
    /\ use_new_connection_per_test \in BOOLEAN
    /\ ExecIdle

ResetLocals ==
    /\ original_results' = NoneList
    /\ tuned_results' = NoneList
    /\ original_error' = NoneStr
    /\ tuned_error' = NoneStr
    /\ execute_original_first' = TRUE

\* executor.py:64 cancel(), from the interface thread at any moment
Cancel ==
    /\ ~is_cancelled
    /\ is_cancelled' = TRUE
    /\ UNCHANGED <<pc, mode, test_cases, idx, results, test_case, locals,
                   connection_open, calls, outcome, result, return_site,
                   invoked, connections>>
    /\ UNCHANGED conf_vars
    /\ UNCHANGED connection_abandoned
    /\ UNCHANGED cb_vars
    /\ UNCHANGED cmp_vars
    /\ UNCHANGED <<db_vars, parser_vars>>

\* a caller invokes execute_test(test_case)
CallExecuteTest ==
    /\ pc = "idle"
    /\ \E tc \in Range(TestCases) \cup InvalidTestCases : test_case' = <<tc>>
    /\ pc' = "et_start"
    /\ mode' = "single"
    /\ test_cases' = <<>> /\ idx' = 0 /\ results' = <<>>
    /\ ResetLocals
    /\ calls' = <<>>
    /\ outcome' = "none" /\ result' = <<>> /\ return_site' = "none"
    /\ invoked' = {} /\ connections' = 0
    /\ connection_abandoned' = FALSE
    /\ progress_callback' = FALSE /\ progress' = <<>>
    /\ UNCHANGED <<is_cancelled, connection_open>>
    /\ UNCHANGED conf_vars
    /\ UNCHANGED cmp_vars
    /\ UNCHANGED <<db_vars, parser_vars>>

\* a caller invokes execute_multiple_tests(test_cases, progress_callback),
\* passing a callback (executor.py:300-318)
CallExecuteMultipleTests ==
    /\ pc = "idle"
    /\ \E n \in 0..MaxTests : test_cases' = SubSeq(TestCases, 1, n)
    /\ progress_callback' = TRUE
    /\ progress' = <<>>
    /\ pc' = "mt_loop"
    /\ mode' = "batch"
    /\ idx' = 0 /\ results' = <<>>
    /\ test_case' = <<>>
    /\ ResetLocals
    /\ calls' = <<>>
    /\ outcome' = "none" /\ result' = <<>> /\ return_site' = "none"
    /\ invoked' = {} /\ connections' = 0
    /\ connection_abandoned' = FALSE
    /\ UNCHANGED <<is_cancelled, connection_open>>
    /\ UNCHANGED conf_vars
    /\ UNCHANGED cmp_vars
    /\ UNCHANGED <<db_vars, parser_vars>>

\* execute_test returns res: to the direct caller, or to line 330-331 of
\* execute_multiple_tests, which appends it and goes on with the loop
ReturnFromTest(res, site) ==
    /\ result' = <<res>>
    /\ return_site' = site
    /\ IF mode = "batch"
       THEN /\ results' = Append(results, res)
            /\ idx' = idx + 1
            /\ pc' = "mt_loop"
            /\ outcome' = outcome
       ELSE /\ pc' = "idle"
            /\ outcome' = "returned"
            /\ UNCHANGED <<results, idx>>

\* an exception leaves execute_test; execute_multiple_tests has no handler
\* around line 330, so it leaves that too and the list is lost
RaiseFromTest ==
    /\ result' = <<>>
    /\ return_site' = "exception"
    /\ pc' = "idle"
    /\ outcome' = "raised"
    /\ results' = <<>>
    /\ idx' = idx

\* executor.py:326-327 `if progress_callback: progress_callback(i, total)`
Report(callback, calls_, current, total) ==
    IF callback THEN Append(calls_, <<current, total>>) ELSE calls_

\* executor.py:320-327, one more iteration
MtLoop ==
    /\ pc = "mt_loop"
    /\ idx < Len(test_cases)
    /\ ~is_cancelled
    /\ test_case' = <<test_cases[idx + 1]>>
    /\ pc' = "et_start"
    /\ calls' = <<>>
    /\ result' = <<>> /\ return_site' = "none"
    /\ invoked' = {}
    /\ progress' = Report(progress_callback, progress, idx, Len(test_cases))
    /\ UNCHANGED <<is_cancelled, mode, test_cases, idx, results, locals,
                   connection_open, outcome, connections, progress_callback>>
    /\ UNCHANGED conf_vars
    /\ UNCHANGED connection_abandoned
    /\ UNCHANGED cmp_vars
    /\ UNCHANGED <<db_vars, parser_vars>>

\* mutant: the final report made whether or not the run was cancelled
FinalReportAlways(callback, calls_, cancelled, total) ==
    IF callback THEN Append(calls_, <<total, total>>) ELSE calls_

\* executor.py:338-339
FinalReport(callback, calls_, cancelled, total) ==
    IF callback /\ ~cancelled THEN Append(calls_, <<total, total>>) ELSE calls_

\* executor.py:320-323 and 337-342: the loop ends or breaks, the final
\* progress report is made and the list is returned
MtFinish ==
    /\ pc = "mt_loop"
    /\ idx >= Len(test_cases) \/ is_cancelled
    /\ pc' = "idle"
    /\ outcome' = "returned"
    /\ progress' = FinalReport(progress_callback, progress, is_cancelled,
                               Len(test_cases))
    /\ UNCHANGED <<is_cancelled, mode, test_cases, idx, results, test_case, locals,
                   connection_open, calls, result, return_site, invoked,
                   connections, progress_callback>>
    /\ UNCHANGED conf_vars
    /\ UNCHANGED connection_abandoned
    /\ UNCHANGED cmp_vars
    /\ UNCHANGED <<db_vars, parser_vars>>

\* mutant: execute_test without its first cancellation check
EtStartUnchecked ==
    /\ pc = "et_start"
    /\ pc' = "et_connect"
    /\ ResetLocals
    /\ UNCHANGED <<results, idx, outcome, result, return_site>>
    /\ UNCHANGED <<is_cancelled, mode, test_cases, test_case, connection_open, calls,
                   invoked, connections>>
    /\ UNCHANGED conf_vars
    /\ UNCHANGED connection_abandoned
    /\ UNCHANGED cb_vars
    /\ UNCHANGED cmp_vars
    /\ UNCHANGED <<db_vars, parser_vars>>

\* executor.py:133-154
EtStart ==
    /\ pc = "et_start"
    /\ IF is_cancelled
       THEN /\ ReturnFromTest(CancelledResult(test_case[1]), "cancelled_before_start")
            /\ UNCHANGED locals
       ELSE /\ pc' = "et_connect"
            /\ ResetLocals
            /\ UNCHANGED <<results, idx, outcome, result, return_site>>
    /\ UNCHANGED <<is_cancelled, mode, test_cases, test_case, connection_open, calls,
                   invoked, connections>>
    /\ UNCHANGED conf_vars
    /\ UNCHANGED connection_abandoned
    /\ UNCHANGED cb_vars
    /\ UNCHANGED cmp_vars
    /\ UNCHANGED <<db_vars, parser_vars>>

\* database.py:73-112 connect(): pyodbc.connect and the session setup
\* succeed; pyodbc.connect raises; or pyodbc.connect succeeds and cursor(),
\* cursor.close() or commit() (84, 101, 102) raises.  The handler at 108-112
\* re-raises without closing self.connection, and as __enter__ raised, the
\* `with` statement does not call __exit__.
ConnectOutcomes ==
    {[opened |-> TRUE, raised |-> FALSE, abandoned |-> FALSE],
     [opened |-> FALSE, raised |-> TRUE, abandoned |-> FALSE],
     [opened |-> TRUE, raised |-> TRUE, abandoned |-> TRUE]}

\* executor.py:157-158 with database.py:382-384 and 73-112: __enter__ calls
\* connect(), which re-raises whatever was raised inside it
EtConnect ==
    /\ pc = "et_connect"
    /\ invoked' = invoked \cup {"connect"}
    /\ \E c \in ConnectOutcomes :
        /\ connection_open' = (c.opened /\ ~c.raised)
        /\ connections' = (IF c.opened THEN connections + 1 ELSE connections)
        /\ connection_abandoned' = c.abandoned
        /\ IF c.raised
           THEN RaiseFromTest
           ELSE /\ pc' = "et_order"
                /\ UNCHANGED <<results, idx, outcome, result, return_site>>
    /\ UNCHANGED <<is_cancelled, mode, test_cases, test_case, locals, calls>>
    /\ UNCHANGED conf_vars
    /\ UNCHANGED cb_vars
    /\ UNCHANGED cmp_vars
    /\ UNCHANGED <<db_vars, parser_vars>>

\* executor.py:164 random.choice([True, False])
EtOrder ==
    /\ pc = "et_order"
    /\ \E b \in BOOLEAN : execute_original_first' = b
    /\ pc' = "et_original"
    /\ UNCHANGED <<is_cancelled, mode, test_cases, idx, results, test_case,
                   original_results, tuned_results, original_error, tuned_error,
                   connection_open, calls, outcome, result, return_site,
                   invoked, connections>>
    /\ UNCHANGED conf_vars
    /\ UNCHANGED connection_abandoned
    /\ UNCHANGED cb_vars
    /\ UNCHANGED cmp_vars
    /\ UNCHANGED <<db_vars, parser_vars>>

\* executor.py:167-175: the original procedure is invoked
EtOriginal ==
    /\ pc = "et_original"
    /\ invoked' = invoked \cup ProcedureInvokes(clear_execution_plan,
                                    test_case[1].original_sp_name, test_case[1])
    /\ IF ProcedureRejected(test_case[1].original_sp_name, test_case[1])
       THEN /\ original_error' = <<format_error_message(RejectedError)>>
            /\ UNCHANGED <<original_results, calls>>
       ELSE /\ calls' = Append(calls, "original")
            /\ \/ \E r \in ProcResults :
                    /\ original_results' = List(r)
                    /\ UNCHANGED original_error
               \/ \E e \in DbErrors :
                    /\ original_error' = <<format_error_message(e)>>
                    /\ UNCHANGED original_results
    /\ pc' = "et_check1"
    /\ UNCHANGED <<is_cancelled, mode, test_cases, idx, results, test_case,
                   tuned_results, tuned_error, execute_original_first,
                   connection_open, outcome, result, return_site, connections>>
    /\ UNCHANGED conf_vars
    /\ UNCHANGED connection_abandoned
    /\ UNCHANGED cb_vars
    /\ UNCHANGED cmp_vars
    /\ UNCHANGED <<db_vars, parser_vars>>

\* mutant: no cancellation check between the two procedures
EtCheck1Unchecked ==
    /\ pc = "et_check1"
    /\ pc' = "et_tuned"
    /\ UNCHANGED <<results, idx, outcome, result, return_site, connection_open,
                   invoked>>
    /\ UNCHANGED <<is_cancelled, mode, test_cases, test_case, locals, calls,
                   connections>>
    /\ UNCHANGED conf_vars
    /\ UNCHANGED connection_abandoned
    /\ UNCHANGED cb_vars
    /\ UNCHANGED cmp_vars
    /\ UNCHANGED <<db_vars, parser_vars>>

\* executor.py:177-184; the return leaves the `with` block, and __exit__
\* disconnects (database.py:386-387)
EtCheck1 ==
    /\ pc = "et_check1"
    /\ IF is_cancelled
       THEN /\ ReturnFromTest(CancelledResult(test_case[1]), "cancelled_after_first")
            /\ connection_open' = FALSE
            /\ invoked' = invoked \cup {"disconnect"}
       ELSE /\ pc' = "et_tuned"
            /\ UNCHANGED <<results, idx, outcome, result, return_site, connection_open,
                           invoked>>
    /\ UNCHANGED <<is_cancelled, mode, test_cases, test_case, locals, calls,
                   connections>>
    /\ UNCHANGED conf_vars
    /\ UNCHANGED connection_abandoned
    /\ UNCHANGED cb_vars
    /\ UNCHANGED cmp_vars
    /\ UNCHANGED <<db_vars, parser_vars>>

\* executor.py:186-194: the tuned procedure is invoked
EtTuned ==
    /\ pc = "et_tuned"
    /\ invoked' = invoked \cup ProcedureInvokes(clear_execution_plan,
                                    test_case[1].tuned_sp_name, test_case[1])
    /\ IF ProcedureRejected(test_case[1].tuned_sp_name, test_case[1])
       THEN /\ tuned_error' = <<format_error_message(RejectedError)>>
            /\ UNCHANGED <<tuned_results, calls>>
       ELSE /\ calls' = Append(calls, "tuned")
            /\ \/ \E r \in ProcResults :
                    /\ tuned_results' = List(r)
                    /\ UNCHANGED tuned_error
               \/ \E e \in DbErrors :
                    /\ tuned_error' = <<format_error_message(e)>>
                    /\ UNCHANGED tuned_results
    /\ pc' = "et_check2"
    /\ UNCHANGED <<is_cancelled, mode, test_cases, idx, results, test_case,
                   original_results, original_error, execute_original_first,
                   connection_open, outcome, result, return_site, connections>>
    /\ UNCHANGED conf_vars
    /\ UNCHANGED connection_abandoned
    /\ UNCHANGED cb_vars
    /\ UNCHANGED cmp_vars
    /\ UNCHANGED <<db_vars, parser_vars>>

FinishTest(res) ==
    IF res.raised THEN RaiseFromTest ELSE ReturnFromTest(res.value[1], "resolved")

\* executor.py:196-279: the last cancellation check, the end of the `with`
\* block and the analysis of the two outcomes
EtCheck2 ==
    /\ pc = "et_check2"
    /\ connection_open' = FALSE
    /\ IF is_cancelled
       THEN /\ ReturnFromTest(CancelledResult(test_case[1]), "cancelled_after_second")
            /\ invoked' = invoked \cup {"disconnect"}
       ELSE /\ \E fault \in BOOLEAN :
                 FinishTest(execute_test_resolve(test_case[1], original_results,
                               tuned_results, original_error, tuned_error,
                               execute_original_first, ignore_column_order, fault))
            /\ invoked' = invoked \cup {"disconnect"}
                   \cup (IF ComparatorInvoked(original_error, tuned_error)
                         THEN {"compare"} ELSE {})
    /\ UNCHANGED <<is_cancelled, mode, test_cases, test_case, locals, calls,
                   connections>>
    /\ UNCHANGED conf_vars
    /\ UNCHANGED connection_abandoned
    /\ UNCHANGED cb_vars
    /\ UNCHANGED cmp_vars
    /\ UNCHANGED <<db_vars, parser_vars>>

Next ==
    \/ Cancel
    \/ CallExecuteTest
    \/ CallExecuteMultipleTests
    \/ MtLoop
    \/ MtFinish
    \/ EtStart
    \/ EtConnect
    \/ EtOrder
    \/ EtOriginal
    \/ EtCheck1
    \/ EtTuned
    \/ EtCheck2

Spec == Init /\ [][Next]_vars

\* ------------------------------------------------- database layer actions
\* a DatabaseConnection whose configuration allows 1..MaxRetries attempts,
\* used by an executor that passes use_recompile = clear_execution_plan
\* (executor.py:93)
DbInit ==
    /\ max_retry_count \in 1..MaxRetries
    /\ DbIdle
    /\ ParserIdle
    /\ ignore_column_order = FALSE
    /\ cmp_original = List(<<>>)
    /\ cmp_tuned = List(<<>>)
    /\ cmp_result = NoResult
    /\ cmp_raised = FALSE
    /\ clear_execution_plan \in BOOLEAN
    /\ use_new_connection_per_test = FALSE
    /\ ExecIdle

\* database.py:244-248: execute_stored_procedure_with_retry is called, for
\* the original and then for the tuned procedure
SpCall ==
    /\ db_pc = "idle"
    /\ db_call < CallsPerTest
    /\ db_call' = db_call + 1
    /\ \E v \in ParamValues : sp_value' = v
    /\ attempt' = 0
    /\ db_trace' = <<>>
    /\ db_prev' = db_trace
    /\ db_outcome' = <<>>
    /\ statement' = <<>>
    /\ delivered' = <<>>
    /\ db_pc' = "attempt"
    /\ UNCHANGED max_retry_count
    /\ UNCHANGED <<cmp_vars, exec_vars, parser_vars>>

\* the except clause, database.py:257-267
SpAttemptFails(e) ==
    /\ db_trace' = Append(db_trace, AttemptFailed(e))
    /\ IF RetryAgain(attempt, max_retry_count)
       THEN /\ db_pc' = "sleep"
            /\ UNCHANGED db_outcome
       ELSE /\ db_pc' = "idle"
            /\ db_outcome' = <<Raised(e)>>

\* database.py:249-267, one pass through the loop body
SpAttempt ==
    /\ db_pc = "attempt"
    /\ \/ \* ensure_connected() is False: RuntimeError, nothing is sent
          /\ SpAttemptFails(NotConnectedError)
          /\ UNCHANGED <<statement, delivered>>
       \/ \* cursor.execute(exec_statement) raises
          /\ \E e \in StatementErrors : SpAttemptFails(e)
          /\ statement' = <<exec_statement(<<"a">>, <<"p">>, sp_value,
                                           clear_execution_plan)>>
          /\ UNCHANGED delivered
       \/ \* the statement runs and the result sets are fetched
          /\ statement' = <<exec_statement(<<"a">>, <<"p">>, sp_value,
                                           clear_execution_plan)>>
          /\ \E d \in Deliveries :
                /\ delivered' = d
                /\ db_outcome' = <<Returned(List(fetch_results(d, 1)))>>
          /\ db_trace' = Append(db_trace, AttemptOk)
          /\ db_pc' = "idle"
    /\ UNCHANGED <<max_retry_count, db_call, attempt, db_prev, sp_value>>
    /\ UNCHANGED <<cmp_vars, exec_vars, parser_vars>>

\* database.py:263-264 time.sleep(retry_delay); continue
SpSleep ==
    /\ db_pc = "sleep"
    /\ db_trace' = Append(db_trace, Sleep)
    /\ attempt' = attempt + 1
    /\ db_pc' = "attempt"
    /\ UNCHANGED <<max_retry_count, db_call, db_prev, db_outcome, sp_value, statement,
                   delivered>>
    /\ UNCHANGED <<cmp_vars, exec_vars, parser_vars>>

DbNext == SpCall \/ SpAttempt \/ SpSleep

SpecDatabase == DbInit /\ [][DbNext]_vars

\* ------------------------------------------------------- parser actions
\* a caller holds a text (gui/main_window.py:564 reads it from the
\* parameter field); nothing else is running
ParserInit ==
    /\ max_retry_count = 1
    /\ DbIdle
    /\ ignore_column_order = FALSE
    /\ cmp_original = List(<<>>)
    /\ cmp_tuned = List(<<>>)
    /\ cmp_result = NoResult
    /\ cmp_raised = FALSE
    /\ ExecInit
    /\ param_text \in ParserTexts
    /\ parser_pc = "start"
    /\ param_parts = <<>>
    /\ parsed = <<>>
    /\ exec_string = <<>>
    /\ reparsed = <<>>

\* ParameterParser._split_parameters(param_text)
CallSplitParameters ==
    /\ parser_pc = "start"
    /\ param_parts' = split_parameters(param_text)
    /\ parser_pc' = "split"
    /\ UNCHANGED <<param_text, parsed, exec_string, reparsed>>
    /\ UNCHANGED <<cmp_vars, exec_vars, db_vars>>

\* ParameterParser.parse_parameters(param_text)
CallParseParameters ==
    /\ parser_pc = "start"
    /\ parsed' = parse_parameters(param_text)
    /\ parser_pc' = "parsed"
    /\ UNCHANGED <<param_text, param_parts, exec_string, reparsed>>
    /\ UNCHANGED <<cmp_vars, exec_vars, db_vars>>

\* ParameterParser.parameters_to_exec_string("sp", parsed)
CallParametersToExecString ==
    /\ parser_pc = "parsed"
    /\ exec_string' = parameters_to_exec_string(<<"s", "p">>, parsed)
    /\ parser_pc' = "built"
    /\ UNCHANGED <<param_text, param_parts, parsed, reparsed>>
    /\ UNCHANGED <<cmp_vars, exec_vars, db_vars>>

\* ParameterParser.parse_parameters(exec_string)
CallParseExecString ==
    /\ parser_pc = "built"
    /\ reparsed' = parse_parameters(exec_string)
    /\ parser_pc' = "reparsed"
    /\ UNCHANGED <<param_text, param_parts, parsed, exec_string>>
    /\ UNCHANGED <<cmp_vars, exec_vars, db_vars>>

ParserNext ==
    \/ CallSplitParameters
    \/ CallParseParameters
    \/ CallParametersToExecString
    \/ CallParseExecString

SpecParser == ParserInit /\ [][ParserNext]_vars

\* ------------------------------------------------ claims on the comparator
Res == cmp_result[1]
HasResult == cmp_result # NoResult

\* a well-formed argument: a list of mappings
IsResultList(l) == l.list /\ \A i \in 1..Len(l.items) : l.items[i].mapping

DiffsOfType(r, t) == {i \in 1..Len(r.differences) : r.differences[i].type = t}

\* the cells of two aligned result sets at row r, column position j differ
\* as the comparator's cell equality decides
CellsDiffer(o, t, r, j) == ~values_equal(o.data[r][j], t.data[r][j])

SameShape(o, t) ==
    /\ o.columns = t.columns
    /\ Len(o.data) = Len(t.data)

\* C1: identical result-set sequences compare equal, with no differences
C1_IdenticalEqual ==
    (HasResult /\ IsResultList(cmp_original) /\ cmp_tuned = cmp_original)
        => (Res.is_equal /\ Res.differences = <<>>)

\* identical sequences with a cell in them (a null and a blank among the
\* cases), compared
C1_Witness ==
    /\ HasResult /\ IsResultList(cmp_original) /\ cmp_tuned = cmp_original
    /\ Len(cmp_original.items) = 1
    /\ cmp_original.items[1].data = <<<<Null, Str(<<" ">>)>>>>
    /\ Res.is_equal

\* a cell is null-like: null, or an empty or whitespace-only string
NullLike(v) == v.null \/ Strip(v.s) = <<>>

\* the two sequences differ at most in cells that are null-like on both sides
DifferOnlyInNullLike(ol, tl) ==
    /\ IsResultList(ol) /\ IsResultList(tl)
    /\ Len(ol.items) = Len(tl.items)
    /\ \A i \in 1..Len(ol.items) :
        /\ SameShape(ol.items[i], tl.items[i])
        /\ \A r \in 1..Len(ol.items[i].data) :
             \A j \in 1..Len(ol.items[i].columns) :
                \/ ol.items[i].data[r][j] = tl.items[i].data[r][j]
                \/ /\ NullLike(ol.items[i].data[r][j])
                   /\ NullLike(tl.items[i].data[r][j])

\* C2: result sets that differ only in null-like cells (null, '', '  ')
\* compare equal
C2_NullLikeUnified ==
    (HasResult /\ DifferOnlyInNullLike(cmp_original, cmp_tuned)) => Res.is_equal


\* the column positions of a result-set pair at which some row mismatches
MismatchColumns(o, t) ==
    {j \in 1..Len(o.columns) : \E r \in 1..Len(o.data) : CellsDiffer(o, t, r, j)}

\* the data_difference records emitted for result set i (1-based)
DataDiffsOf(r, i) ==
    {k \in 1..Len(r.differences) :
        /\ r.differences[k].type = "data_difference"
        /\ r.differences[k].result_set_index = i - 1}

\* all mismatching cells <<i, r, j>> of two same-shaped sequences
MismatchCells(ol, tl) ==
    {c \in (1..Len(ol.items)) \X (1..Max(MaxCells, TallRows)) \X (1..MaxCells) :
        /\ c[2] <= Len(ol.items[c[1]].data)
        /\ c[3] <= Len(ol.items[c[1]].columns)
        /\ CellsDiffer(ol.items[c[1]], tl.items[c[1]], c[2], c[3])}

SameShapeLists(ol, tl) ==
    /\ IsResultList(ol) /\ IsResultList(tl)
    /\ Len(ol.items) = Len(tl.items)
    /\ \A i \in 1..Len(ol.items) : SameShape(ol.items[i], tl.items[i])

OneRecordPerMismatchColumn ==
    \A i \in 1..Len(cmp_original.items) :
        LET o == cmp_original.items[i]
            t == cmp_tuned.items[i]
        IN /\ Cardinality(DataDiffsOf(Res, i)) = Cardinality(MismatchColumns(o, t))
           /\ \A j \in MismatchColumns(o, t) :
                \E k \in DataDiffsOf(Res, i) : Res.differences[k].column = o.columns[j]
           /\ \A k \in DataDiffsOf(Res, i) :
                \E j \in MismatchColumns(o, t) : Res.differences[k].column = o.columns[j]

SingleCellCase ==
    \A c \in MismatchCells(cmp_original, cmp_tuned) :
        MismatchCells(cmp_original, cmp_tuned) = {c} =>
            /\ Cardinality(DiffsOfType(Res, "data_difference")) = 1
            /\ \A k \in DiffsOfType(Res, "data_difference") :
                /\ Res.differences[k].column = cmp_original.items[c[1]].columns[c[3]]
                /\ Len(Res.differences[k].sample_differences) = 1
                /\ Res.differences[k].sample_differences[1].row = c[2] - 1

\* C3: with matching columns and row counts, exactly one data_difference per
\* column that has a mismatching row and none for a column without; a single
\* differing cell gives one record, for its column, with one sample at its row
C3_OneRecordPerColumn ==
    (HasResult /\ SameShapeLists(cmp_original, cmp_tuned))
        => (OneRecordPerMismatchColumn /\ SingleCellCase)

UniqueColumns(l) ==
    \A i \in 1..Len(l.items) :
        \A j, k \in 1..Len(l.items[i].columns) :
            l.items[i].columns[j] = l.items[i].columns[k] => j = k

\* C3 on result sets whose column names are distinct (what remains of the
\* claim when no label is repeated)
C3_UniqueColumnsOnly ==
    (HasResult /\ SameShapeLists(cmp_original, cmp_tuned) /\ UniqueColumns(cmp_original))
        => (OneRecordPerMismatchColumn /\ SingleCellCase)

\* C4: sequences of different lengths give exactly one record, of type
\* result_set_count with both counts, is_equal false, nothing compared further
C4_CountMismatchOnly ==
    (HasResult /\ cmp_original.list /\ cmp_tuned.list
        /\ Len(cmp_original.items) # Len(cmp_tuned.items))
        => /\ ~Res.is_equal
           /\ Len(Res.differences) = 1
           /\ Res.differences[1].type = "result_set_count"
           /\ Res.differences[1].original_count = Len(cmp_original.items)
           /\ Res.differences[1].tuned_count = Len(cmp_tuned.items)

\* one result set against two, the first pair differing in a cell, compared
C4_Witness ==
    /\ HasResult /\ IsResultList(cmp_original) /\ IsResultList(cmp_tuned)
    /\ Len(cmp_original.items) = 1 /\ Len(cmp_tuned.items) = 2
    /\ cmp_original.items[1].columns = cmp_tuned.items[1].columns
    /\ cmp_original.items[1].data = <<<<Null>>>>
    /\ cmp_tuned.items[1].data = <<<<Str(<<"a">>)>>>>
    /\ ~Res.is_equal

\* C5: is_equal implies no differences and all three match flags true
C5_EqualImpliesFlags ==
    (HasResult /\ Res.is_equal)
        => /\ Res.differences = <<>>
           /\ Res.result_set_count_match
           /\ Res.column_structure_match
           /\ Res.data_match

\* two non-empty result sets reported equal
C5_Witness ==
    /\ HasResult /\ Res.is_equal
    /\ Len(cmp_original.items) = 2
    /\ cmp_original.items[1].data # <<>>
    /\ Res.result_set_count_match /\ Res.column_structure_match /\ Res.data_match

\* the inputs on which the body of compare_results raises: an argument that
\* is no list, or equally long lists with an element that is no mapping
InternalException ==
    \/ ~cmp_original.list
    \/ ~cmp_tuned.list
    \/ /\ Len(cmp_original.items) = Len(cmp_tuned.items)
       /\ \E i \in 1..Len(cmp_original.items) :
            ~cmp_original.items[i].mapping \/ ~cmp_tuned.items[i].mapping

\* C6: compare_results never propagates an exception; an internal exception
\* gives is_equal false, the three flags false and error_message set
C6_NeverRaises ==
    Called =>
        /\ ~cmp_raised
        /\ HasResult
        /\ InternalException =>
            /\ ~Res.is_equal
            /\ ~Res.result_set_count_match
            /\ ~Res.column_structure_match
            /\ ~Res.data_match
            /\ Res.error_message # NoError
            /\ Res.error_message # ""

\* a result set that is no mapping, after a pair that already differed
C6_Witness ==
    /\ HasResult
    /\ cmp_original.list /\ cmp_tuned.list
    /\ Len(cmp_original.items) = 2 /\ Len(cmp_tuned.items) = 2
    /\ cmp_original.items[1].mapping /\ cmp_tuned.items[1].mapping
    /\ cmp_original.items[1] # cmp_tuned.items[1]
    /\ ~cmp_original.items[2].mapping
    /\ Res.error_message = "AttributeError"


\* -------------------------------------------------- claims on the executor
\* every TestExecutionResult handed back so far by execute_test
ReturnedResults == Range(result) \cup Range(results)

NonEmptyMessage(message) == \E k \in 1..Len(message) : message[k] # ""

\* C7: a result with success = false carries a non-empty error_message and
\* no ComparisonResult, whichever return statement produced it
C7_FailureHasMessage ==
    \A r \in ReturnedResults :
        ~r.success => (NonEmptyMessage(r.error_message) /\ r.comparison_result = <<>>)

\* a batch whose first test failed on both sides and whose second was
\* cancelled after its second procedure
C7_Witness ==
    /\ mode = "batch" /\ Len(results) = 2
    /\ ~results[1].success
    /\ results[1].error_message[1] = "original error: "
    /\ ~results[2].success
    /\ results[2].error_message = <<"test cancelled">>
    /\ return_site = "cancelled_after_second"

ExactlyOneFailed == Truthy(original_error) # Truthy(tuned_error)

\* C8: exactly one procedure failed and no cancellation was observed: the
\* result is a success without ComparisonResult, its message names the
\* failing side, that side's results are the empty list and the other
\* side's are the captured ones
C8_PartialSuccess ==
    (return_site = "resolved" /\ ExactlyOneFailed) =>
        /\ result[1].success
        /\ result[1].comparison_result = <<>>
        /\ result[1].error_message[1] =
              (IF Truthy(original_error) THEN "original" ELSE "tuned")
        /\ Truthy(original_error) =>
              /\ result[1].original_results = List(<<>>)
              /\ result[1].tuned_results = tuned_results
        /\ Truthy(tuned_error) =>
              /\ result[1].tuned_results = List(<<>>)
              /\ result[1].original_results = original_results

\* the tuned procedure failed after the original one delivered a result set
C8_Witness ==
    /\ return_site = "resolved"
    /\ Truthy(tuned_error) /\ ~Truthy(original_error)
    /\ original_results = List(<<RsA>>)
    /\ result[1].success
    /\ result[1].tuned_results = List(<<>>)

\* C9: the procedures are invoked in the order the execution_order tag of
\* the result records (both calls having reached the database)
C9_OrderAsRecorded ==
    (return_site = "resolved" /\ result[1].success /\ Len(calls) = 2) =>
        /\ result[1].execution_order = "tuned_first" => calls = <<"tuned", "original">>
        /\ result[1].execution_order = "original_first" => calls = <<"original", "tuned">>

\* C10: no exception escapes execute_test or execute_multiple_tests
C10_NoExceptionEscapes == outcome # "raised"

\* ------------------------------------------------ cancellation and batches
IsPrefix(s, t) == Len(s) <= Len(t) /\ SubSeq(t, 1, Len(s)) = s

\* execute_multiple_tests is running
BatchRunning == mode = "batch" /\ pc # "idle"

\* the test cases of the running batch whose iteration has passed the
\* cancellation check of the loop (executor.py:321)
TestsStarted == IF pc = "mt_loop" THEN idx ELSE idx + 1

\* one step of a batch in which cancellation has been requested
CancelledBatchStep ==
    /\ ~(pc = "mt_loop" /\ pc' = "et_start")
    /\ IsPrefix(results, results')
    /\ pc' = "idle" => (Len(results') = TestsStarted /\ results' = results)

\* C11: once cancel() has been requested during execute_multiple_tests, no
\* further test case is started, the results collected so far are kept and
\* returned, and the returned list has one entry per started test case
C11_CancelStopsBatch ==
    [][(BatchRunning /\ is_cancelled) =>
          (CancelledBatchStep /\ (pc' = "idle" => outcome' = "returned"))]_vars

\* C11 for the batches that do return a list
C11_WhenListReturned ==
    [][(BatchRunning /\ is_cancelled /\ outcome' # "raised") => CancelledBatchStep]_vars

\* one result per test case, result i for test case i
OneResultPerTestCase ==
    /\ Len(results) = Len(test_cases)
    /\ \A i \in 1..Len(results) : results[i].test_case = test_cases[i]

\* the batch runs its test cases in list order
InListOrder ==
    (BatchRunning /\ pc # "mt_loop") =>
        (idx < Len(test_cases) /\ test_case = <<test_cases[idx + 1]>> /\ Len(results) = idx)

\* C12: without cancellation a batch runs its test cases in list order and
\* returns exactly one result per test case, result i for test case i,
\* whatever the outcomes of the test cases are
C12_BatchCompletes ==
    /\ (mode = "batch" /\ ~is_cancelled) => InListOrder
    /\ (mode = "batch" /\ ~is_cancelled /\ pc = "idle") =>
          (outcome = "returned" /\ OneResultPerTestCase)

\* C12 for the batches that do return a list
C12_WhenListReturned ==
    /\ (mode = "batch" /\ ~is_cancelled) => InListOrder
    /\ (mode = "batch" /\ ~is_cancelled /\ pc = "idle" /\ outcome = "returned") =>
          OneResultPerTestCase

\* C13: with the flag set when execute_test begins, the call returns at once
\* a failed result with the cancellation message, and nothing is invoked on
\* the database: no connection, no cache clear, no probe, no procedure
C13_CancelledBeforeStart ==
    [][(pc = "et_start" /\ is_cancelled) =>
          /\ result' = <<CancelledResult(test_case[1])>>
          /\ ~result'[1].success
          /\ NonEmptyMessage(result'[1].error_message)
          /\ pc' \in {"idle", "mt_loop"}
          /\ invoked' = {}
          /\ calls' = <<>>
          /\ connections' = connections
          /\ ~connection_open']_vars

\* execute_test called directly on an executor with cache clearing
\* configured and already cancelled: returned at once, nothing invoked
C13_Witness ==
    /\ mode = "single" /\ pc = "idle" /\ is_cancelled /\ clear_execution_plan
    /\ return_site = "cancelled_before_start"
    /\ ~result[1].success
    /\ invoked = {} /\ connections = 0

\* C14: a cancellation requested while the first procedure runs is seen
\* after it: the second procedure is not invoked and the result is the
\* cancelled one; requested while the second runs, the result is the
\* cancelled one too and the comparator is not invoked
C14_CancelAfterEachCall ==
    [][/\ (is_cancelled /\ pc \in {"et_original", "et_check1"}) =>
            /\ "tuned" \notin Range(calls')
            /\ "compare" \notin invoked'
            /\ pc = "et_check1" =>
                  /\ result' = <<CancelledResult(test_case[1])>>
                  /\ ~result'[1].success
                  /\ result'[1].comparison_result = <<>>
       /\ (is_cancelled /\ pc \in {"et_tuned", "et_check2"}) =>
            /\ "compare" \notin invoked'
            /\ pc = "et_check2" =>
                  /\ result' = <<CancelledResult(test_case[1])>>
                  /\ ~result'[1].success
                  /\ result'[1].comparison_result = <<>>]_vars

\* both procedures delivered result sets, cancellation came during the
\* second: cancelled result, comparator not invoked
C14_Witness ==
    /\ return_site = "cancelled_after_second"
    /\ calls = <<"original", "tuned">>
    /\ ~Truthy(original_error) /\ ~Truthy(tuned_error)
    /\ original_results = List(<<RsA>>) /\ tuned_results = List(<<RsA>>)
    /\ ~result[1].success /\ result[1].comparison_result = <<>>
    /\ "compare" \notin invoked

\* ------------------------------------------------- validation, connections
\* the test case carries one of the validation errors: a missing name, equal
\* names, a repeated parameter name, or a procedure or parameter name outside
\* the identifier pattern
HasValidationError(tc) ==
    \/ validate(tc) # <<>>
    \/ ~MatchesProcName(tc.original_sp_name)
    \/ ~MatchesProcName(tc.tuned_sp_name)
    \/ \E k \in 1..Len(tc.parameters) : ~MatchesIdentifier(LStripAt(tc.parameters[k]))

DatabaseInvocations == {"connect", "cache_clear", "probe", "exec", "disconnect"}

\* C16: executing a test case that has a validation error opens no
\* connection and sends nothing to the database
C16_InvalidNeverReachesDatabase ==
    (test_case # <<>> /\ HasValidationError(test_case[1])) =>
        /\ invoked \cap DatabaseInvocations = {}
        /\ connections = 0
        /\ ~connection_open

\* C19: both procedures succeeded and the ComparisonResult carries an
\* error_message: the test case is marked failed, with an error message
C19_ComparisonErrorFails ==
    (/\ return_site = "resolved"
     /\ result[1].comparison_result # <<>>
     /\ result[1].comparison_result[1].error_message # NoError) =>
        /\ ~result[1].success
        /\ NonEmptyMessage(result[1].error_message)

\* C20: with use_new_connection_per_test = false a batch opens one
\* connection for all its test cases; with true every test case that
\* connects opens a connection of its own
C20_ConnectionModeHonoured ==
    [][/\ (~use_new_connection_per_test /\ mode' = "batch") => connections' <= 1
       /\ (use_new_connection_per_test /\ pc = "et_connect" /\ pc' = "et_order") =>
            (~connection_open /\ connection_open' /\ connections' = connections + 1)]_vars

\* C20 for the per-test mode alone
C20_FreshConnectionPerTest ==
    [][(use_new_connection_per_test /\ pc = "et_connect" /\ pc' = "et_order") =>
            (~connection_open /\ connection_open' /\ connections' = connections + 1)]_vars

\* ----------------------------------------------- claims on the database layer
AttemptsIn(trace) == {i \in 1..Len(trace) : trace[i].kind = "attempt"}
SleepsIn(trace) == {i \in 1..Len(trace) : trace[i].kind = "sleep"}

\* attempts and waits alternate, beginning with an attempt: a wait has an
\* attempt before it, and after it when the call is over
WaitsOnlyBetweenAttempts(trace, finished) ==
    /\ \A i \in 1..Len(trace) :
          trace[i].kind = (IF i % 2 = 1 THEN "attempt" ELSE "sleep")
    /\ finished => (trace # <<>> /\ trace[Len(trace)].kind = "attempt")

RECURSIVE LiteralReads(_, _)
LiteralReads(inner, s) ==
    IF inner = <<>> THEN s = <<>>
    ELSE IF Head(inner) = "'"
    THEN /\ Len(inner) >= 2 /\ inner[2] = "'"
         /\ s # <<>> /\ Head(s) = "'"
         /\ LiteralReads(SubSeq(inner, 3, Len(inner)), Tail(s))
    ELSE /\ s # <<>> /\ Head(s) = Head(inner)
         /\ LiteralReads(Tail(inner), Tail(s))

\* text is N'...' with the quotes of s doubled inside
IsQuotedLiteralOf(text, s) ==
    /\ Len(text) >= 3
    /\ StartsWith(text, <<"N", "'">>)
    /\ EndsWith(text, <<"'">>)
    /\ LiteralReads(SubSeq(text, 3, Len(text) - 1), s)

\* C17: a string parameter value appears in the EXEC statement wrapped in
\* N'...' with each of its single quotes doubled
C17_QuotesEscaped ==
    (statement # <<>> /\ sp_value.kind = "str") =>
        IsQuotedLiteralOf(statement[1].text, sp_value.s)

\* C17 for the values that do not already look like a literal
C17_UnlessLiteralShaped ==
    (/\ statement # <<>> /\ sp_value.kind = "str"
     /\ ~(StartsWith(sp_value.s, <<"N", "'">>) /\ EndsWith(sp_value.s, <<"'">>))) =>
        IsQuotedLiteralOf(statement[1].text, sp_value.s)

\* the result sets that reached the client: the items before the first
\* pyodbc.Error
RECURSIVE DeliveredSets(_, _)
DeliveredSets(items, i) ==
    IF i > Len(items) \/ items[i].error THEN <<>>
    ELSE <<ResultSet(items[i].columns, items[i].rows)>> \o DeliveredSets(items, i + 1)

\* C18: the returned list has one entry per delivered result set, in
\* delivery order, sets without rows included
C18_EveryResultSetCaptured ==
    (db_outcome # <<>> /\ ~db_outcome[1].raised) =>
        db_outcome[1].value[1].items = DeliveredSets(delivered, 1)

\* C18 when every delivered result set has a row
C18_UnlessEmptySet ==
    (/\ db_outcome # <<>> /\ ~db_outcome[1].raised
     /\ \A i \in 1..Len(delivered) : delivered[i].error \/ delivered[i].rows # <<>>) =>
        db_outcome[1].value[1].items = DeliveredSets(delivered, 1)

\* the records of a data-level category: row_count, data_difference and the
\* record of a failed data comparison
DataLevelDiffs(r) ==
    DiffsOfType(r, "row_count") \cup DiffsOfType(r, "data_difference")
    \cup DiffsOfType(r, "data_comparison_error")

FlagsFollowCategories(r) ==
    /\ r.column_structure_match <=> (DiffsOfType(r, "column_structure") = {})
    /\ r.data_match <=> (DataLevelDiffs(r) = {})

\* C23: in a result without error_message, column_structure_match is false
\* exactly when there is a column_structure record and data_match is false
\* exactly when there is a data-level record, also when the only difference
\* is a result_set_count record
C23_FlagsFollowCategories ==
    (HasResult /\ Res.error_message = NoError) => FlagsFollowCategories(Res)

\* C23 for the results of sequences of equal length
C23_WhenCountsMatch ==
    (HasResult /\ Res.error_message = NoError /\ Res.result_set_count_match)
        => FlagsFollowCategories(Res)

\* the records of type t emitted for result set i (1-based)
DiffsAt(r, i, t) ==
    {k \in 1..Len(r.differences) :
        /\ r.differences[k].type = t
        /\ r.differences[k].result_set_index = i - 1}

\* two column lists mismatch: as sets when the order is ignored, else as lists
ColumnsMismatch(o, t, ignore_order) ==
    IF ignore_order THEN Range(o.columns) # Range(t.columns)
    ELSE o.columns # t.columns

\* the record d cites the count mismatch of the two column lists, or their
\* first differing pair from the left
CitesMismatch(d, o, t) ==
    IF Len(o.columns) # Len(t.columns)
    THEN /\ d.message = "column_count_differs"
         /\ d.original_count = Len(o.columns)
         /\ d.tuned_count = Len(t.columns)
    ELSE \E p \in 1..Len(o.columns) :
            /\ o.columns[p] # t.columns[p]
            /\ \A q \in 1..(p - 1) : o.columns[q] = t.columns[q]
            /\ d.message = "column_name_differs"
            /\ d.message_original = o.columns[p]
            /\ d.message_tuned = t.columns[p]

ShortCircuitAt(r, i, o, t, ignore_order) ==
    /\ ColumnsMismatch(o, t, ignore_order) =>
        /\ Cardinality(DiffsAt(r, i, "column_structure")) = 1
        /\ \A k \in DiffsAt(r, i, "column_structure") :
                CitesMismatch(r.differences[k], o, t)
        /\ DiffsAt(r, i, "row_count") = {}
        /\ DiffsAt(r, i, "data_difference") = {}
    /\ (~ColumnsMismatch(o, t, ignore_order) /\ Len(o.data) # Len(t.data)) =>
        /\ Cardinality(DiffsAt(r, i, "row_count")) = 1
        /\ DiffsAt(r, i, "data_difference") = {}
        /\ DiffsAt(r, i, "column_structure") = {}

EqualLengthLists(ol, tl) ==
    /\ IsResultList(ol) /\ IsResultList(tl)
    /\ Len(ol.items) = Len(tl.items)

\* C24: per result-set index, a column mismatch gives exactly one
\* column_structure record (citing the count mismatch or the first differing
\* name pair) and no row_count or data_difference record; a row-count
\* mismatch with matching columns gives exactly one row_count record and no
\* data_difference record; every index is compared whatever the others gave
C24_ShortCircuitPerResultSet ==
    (HasResult /\ EqualLengthLists(cmp_original, cmp_tuned)) =>
        \A i \in 1..Len(cmp_original.items) :
            ShortCircuitAt(Res, i, cmp_original.items[i], cmp_tuned.items[i],
                           ignore_column_order)

\* a column mismatch at the first index (its rows differing in number too)
\* and a row-count mismatch at the second, compared
C24_Witness ==
    /\ HasResult /\ EqualLengthLists(cmp_original, cmp_tuned)
    /\ Len(cmp_original.items) = 2
    /\ cmp_original.items[1].columns = <<"x">>
    /\ cmp_tuned.items[1].columns = <<"y">>
    /\ Len(cmp_original.items[1].data) # Len(cmp_tuned.items[1].data)
    /\ cmp_original.items[2].columns = cmp_tuned.items[2].columns
    /\ Len(cmp_original.items[2].data) # Len(cmp_tuned.items[2].data)
    /\ Len(Res.differences) = 2
    /\ Res.differences[1].type = "column_structure"
    /\ Res.differences[2].type = "row_count"

\* the 0-based rows at which the cells of original position j and tuned
\* position jt differ
DifferRows(o, t, j, jt) ==
    {r \in 0..(Len(o.data) - 1) : ~values_equal(o.data[r + 1][j], t.data[r + 1][jt])}

\* seq lists the members of S in ascending order, each once
ListsAscending(seq, S) ==
    /\ Range(seq) = S
    /\ \A a, b \in 1..Len(seq) : a < b => seq[a] < seq[b]

\* the samples are the first rows of different_rows, at most SampleLimit,
\* each with the cells of its row
SamplesOf(d, o, t, j, jt) ==
    /\ Len(d.sample_differences) = Min(SampleLimit, Len(d.different_rows))
    /\ \A k \in 1..Len(d.sample_differences) :
        /\ d.sample_differences[k].row = d.different_rows[k]
        /\ d.sample_differences[k].original = o.data[d.different_rows[k] + 1][j]
        /\ d.sample_differences[k].tuned = t.data[d.different_rows[k] + 1][jt]

\* the column of a record is matched by name; equal column lists match
\* position by position
MatchedPositions(o, t, column) ==
    {p \in (1..Len(o.columns)) \X (1..Len(t.columns)) :
        /\ o.columns[p[1]] = column
        /\ t.columns[p[2]] = column
        /\ o.columns = t.columns => p[1] = p[2]}

RecordIsExact(d, o, t) ==
    \E p \in MatchedPositions(o, t, d.column) :
        /\ ListsAscending(d.different_rows, DifferRows(o, t, p[1], p[2]))
        /\ SamplesOf(d, o, t, p[1], p[2])

DataDifferencesExact ==
    \A k \in DiffsOfType(Res, "data_difference") :
        RecordIsExact(Res.differences[k],
                      cmp_original.items[Res.differences[k].result_set_index + 1],
                      cmp_tuned.items[Res.differences[k].result_set_index + 1])

\* C25: in every data_difference record different_rows lists, ascending and
\* without repeats, all rows at which the cells of that column differ, and
\* sample_differences holds the first min(5, len(different_rows)) of them in
\* order, each with the original and the tuned cell of its row
C25_SamplesExact ==
    (HasResult /\ EqualLengthLists(cmp_original, cmp_tuned)) => DataDifferencesExact

SameColumnLists(ol, tl) ==
    \A i \in 1..Len(ol.items) : ol.items[i].columns = tl.items[i].columns

\* C25 for result sets whose column lists are equal position by position
C25_WhenColumnsAligned ==
    (/\ HasResult /\ EqualLengthLists(cmp_original, cmp_tuned)
     /\ SameColumnLists(cmp_original, cmp_tuned)) => DataDifferencesExact

\* a column whose rows all differ, more of them than the sample limit
C25_CapReached ==
    /\ HasResult
    /\ Len(Res.differences) = 1
    /\ Len(Res.differences[1].different_rows) = SampleLimit + 1
    /\ Len(Res.differences[1].sample_differences) = SampleLimit

\* every mismatching cell is reported: the result is unequal and a
\* data_difference of the cell's result set lists the cell's row
EveryMismatchReported ==
    \A c \in MismatchCells(cmp_original, cmp_tuned) :
        /\ ~Res.is_equal
        /\ \E k \in DataDiffsOf(Res, c[1]) :
                (c[2] - 1) \in Range(Res.differences[k].different_rows)

\* C27: with matching counts, column lists and row counts, a cell that is
\* not equal at some (result set, row, column position) makes the result
\* unequal with a data_difference listing that row, at every column
\* position, also under a repeated column name
C27_EveryCellCompared ==
    (HasResult /\ SameShapeLists(cmp_original, cmp_tuned)) => EveryMismatchReported

\* C27 for result sets whose column names are distinct
C27_UniqueColumnsOnly ==
    (HasResult /\ SameShapeLists(cmp_original, cmp_tuned) /\ UniqueColumns(cmp_original))
        => EveryMismatchReported

DistinctNames(columns) ==
    \A j, k \in 1..Len(columns) : columns[j] = columns[k] => j = k

\* t has the columns of o in another order and, under each column name, the
\* cells of o in every row
PermutedEqualByName(o, t) ==
    /\ DistinctNames(o.columns) /\ DistinctNames(t.columns)
    /\ Range(o.columns) = Range(t.columns)
    /\ o.columns # t.columns
    /\ Len(o.data) = Len(t.data)
    /\ \A r \in 1..Len(o.data) :
        \A j \in 1..Len(o.columns), jt \in 1..Len(t.columns) :
            o.columns[j] = t.columns[jt] => o.data[r][j] = t.data[r][jt]

PermutedLists(ol, tl) ==
    /\ EqualLengthLists(ol, tl)
    /\ ol.items # <<>>
    /\ \A i \in 1..Len(ol.items) : PermutedEqualByName(ol.items[i], tl.items[i])

\* C28: with ignore_column_order, result sets with the same column names in
\* a different order and the same cells under each name are reported equal
C28_MatchedByName ==
    (HasResult /\ ignore_column_order /\ PermutedLists(cmp_original, cmp_tuned))
        => Res.is_equal

\* what holds of C28: the permuted column lists themselves are accepted, no
\* column_structure record is emitted for them
C28_ColumnSetsAccepted ==
    (HasResult /\ ignore_column_order /\ PermutedLists(cmp_original, cmp_tuned))
        => (Res.column_structure_match /\ DiffsOfType(Res, "column_structure") = {})

\* ------------------------------------------ claims on the progress callback
\* the step in which execute_multiple_tests starts its next test case
StartsTest == mode = "batch" /\ pc = "mt_loop" /\ pc' = "et_start"

\* the step in which execute_multiple_tests leaves its loop and returns
LeavesLoop == mode = "batch" /\ pc = "mt_loop" /\ pc' = "idle"

\* the reports received so far are (0, total), (1, total), ... in order, one
\* per test case started, the final (total, total) only after the loop
ReportsInOrder ==
    (mode = "batch" /\ progress_callback) =>
        /\ \A k \in 1..Len(progress) :
            \/ progress[k] = <<k - 1, Len(test_cases)>>
            \/ /\ k = Len(progress) /\ pc = "idle"
               /\ progress[k] = <<Len(test_cases), Len(test_cases)>>
        /\ pc = "mt_loop" => Len(progress) = idx
        /\ pc \notin {"mt_loop", "idle"} => Len(progress) = idx + 1

ReportStep ==
    /\ (StartsTest /\ progress_callback) =>
        /\ progress' = Append(progress, <<idx, Len(test_cases)>>)
        /\ test_case' = <<test_cases[idx + 1]>>
    /\ (progress' # progress /\ pc # "idle") =>
        \/ StartsTest
        \/ /\ LeavesLoop /\ ~is_cancelled
           /\ progress' = Append(progress, <<Len(test_cases), Len(test_cases)>>)
    /\ (progress' # progress /\ pc = "idle") => progress' = <<>>

\* C22: progress_callback(i, total) is called before the i-th test case is
\* started, in input order; the final progress_callback(total, total) is
\* called only if the run was not cancelled, and nothing is reported after a
\* cancelled run
C22_ProgressReported == []ReportsInOrder /\ [][ReportStep]_vars

\* a batch of two, cancelled while its second test case ran, has returned:
\* both starts were reported, the final report was not made
C22_Witness ==
    /\ mode = "batch" /\ pc = "idle" /\ outcome = "returned"
    /\ is_cancelled
    /\ Len(test_cases) = 2 /\ Len(results) = 2
    /\ progress = <<<<0, 2>>, <<1, 2>>>>

\* ------------------------------------------------- claims on connections
\* no call of execute_test is in progress
NoTestRunning == pc \in {"idle", "mt_loop"}

\* a step that opens a connection finds no other connection open
OneConnectionAtATime == (connections' = connections + 1) => ~connection_open

\* C29: every connection execute_test opens is closed when execute_test is
\* left, on every exit path, so that after any sequence of calls no
\* connection of the executor is open, and at most one is open at any time
C29_ConnectionsClosed ==
    /\ [](NoTestRunning => (~connection_open /\ ~connection_abandoned))
    /\ [][OneConnectionAtATime]_vars

\* C29 on the exit paths that return a result: the connection the `with`
\* block entered is closed by __exit__ on each of them
C29_ClosedOnEveryReturn ==
    /\ [](NoTestRunning => ~connection_open)
    /\ [][OneConnectionAtATime]_vars
    /\ [][(result = <<>> /\ result' # <<>> /\ "connect" \in invoked) =>
            "disconnect" \in invoked']_vars

\* --------------------------------------------- claims on the summary report
\* the lists of results the executor has handed back: the list of a batch
\* and the single result of a direct call
ProducedLists == {results, result}

CountsPartition(report) ==
    report.counted =>
        report.passed_tests + report.failed_tests + report.error_tests
            = report.total_tests

\* C30: for every list of results execute_test can produce, the summary's
\* pass, fail and error counts add up to the total: each result is counted
\* in exactly one of the three
C30_CountsPartition ==
    \A rs \in ProducedLists : CountsPartition(generate_summary_report(rs))

IsPartialSuccess(r) == r.success /\ r.comparison_result = <<>>

\* C30 for lists without a partial-success result
C30_WithoutPartialSuccess ==
    \A rs \in ProducedLists :
        (\A i \in 1..Len(rs) : ~IsPartialSuccess(rs[i]))
            => CountsPartition(generate_summary_report(rs))

\* ---------------------------------------------------------------------------
\* C26: _split_parameters splits the text exactly at the commas that lie
\* outside single- or double-quoted spans.  The quote that is open after the
\* first i characters follows the three rules of the claim: a quote
\* character preceded by a backslash changes nothing, a quote opens a span
\* when none is open, and only a quote of the same kind closes it.  The
\* segments returned are the stretches of text between the commas outside
\* every span, in order (the stretch after the last such comma when it is not
\* empty), so their characters are the input characters without those commas.
Escaped(s, i) == i > 1 /\ s[i - 1] = "\\"
QuoteAfter(open, s, i) ==
    IF s[i] \notin QuoteChars \/ Escaped(s, i) THEN open
    ELSE IF open = "None" THEN s[i]
    ELSE IF open = s[i] THEN "None"
    ELSE open
RECURSIVE OpenQuote(_, _)
OpenQuote(s, i) == IF i = 0 THEN "None" ELSE QuoteAfter(OpenQuote(s, i - 1), s, i)
SeparatingCommas(s) == {i \in 1..Len(s) : s[i] = "," /\ OpenQuote(s, i - 1) = "None"}
\* the position of the k-th separating comma, 0 before the first segment and
\* Len(s) + 1 after the last
Cut(s, k) ==
    IF k = 0 THEN 0
    ELSE IF k > Cardinality(SeparatingCommas(s)) THEN Len(s) + 1
    ELSE CHOOSE i \in SeparatingCommas(s) :
            Cardinality({j \in SeparatingCommas(s) : j <= i}) = k
Stretch(s, k) == SubSeq(s, Cut(s, k - 1) + 1, Cut(s, k) - 1)
StretchCount(s) ==
    Cardinality(SeparatingCommas(s))
    + (IF Stretch(s, Cardinality(SeparatingCommas(s)) + 1) # <<>> THEN 1 ELSE 0)
RECURSIVE Concat(_)
Concat(segments) ==
    IF segments = <<>> THEN <<>> ELSE Head(segments) \o Concat(Tail(segments))
RECURSIVE WithoutPositions(_, _, _)
WithoutPositions(s, i, removed) ==
    IF i > Len(s) THEN <<>>
    ELSE (IF i \in removed THEN <<>> ELSE <<s[i]>>) \o WithoutPositions(s, i + 1, removed)
SplitAtOuterCommas(s, segments) ==
    /\ Len(segments) = StretchCount(s)
    /\ \A k \in 1..Len(segments) : segments[k] = Stretch(s, k)
    /\ Concat(segments) = WithoutPositions(s, 1, SeparatingCommas(s))
C26_SplitAtOuterCommas ==
    parser_pc = "split" => SplitAtOuterCommas(param_text, param_parts)

\* C26 witness: a text was split which has a comma inside a quoted span, a
\* quote that would have closed the span but follows a backslash, a quote of
\* the other kind inside the span, and a comma outside every span that
\* separated two segments
CommaInSpan(s) == \E i \in 1..Len(s) : s[i] = "," /\ OpenQuote(s, i - 1) # "None"
EscapedCloser(s) ==
    \E i \in 1..Len(s) : s[i] \in QuoteChars /\ Escaped(s, i) /\ OpenQuote(s, i - 1) = s[i]
OtherKindInSpan(s) ==
    \E i \in 1..Len(s) :
        s[i] \in QuoteChars /\ ~Escaped(s, i) /\ OpenQuote(s, i - 1) \notin {"None", s[i]}
C26_Witness ==
    /\ parser_pc = "split"
    /\ CommaInSpan(param_text)
    /\ EscapedCloser(param_text)
    /\ OtherKindInSpan(param_text)
    /\ SeparatingCommas(param_text) # {}
    /\ Len(param_parts) >= 2

\* ---------------------------------------------------------------------------
\* C21: round trip of the parameter text format.  For the list parsed from a
\* key=value text, the list parsed from the EXEC string built from it has
\* the same length and, position by position, the same name, the same data
\* type and the same value, or for a string value the value with its single
\* quotes doubled.
SameUpToEscaping(before, after) ==
    /\ after.name = before.name
    /\ after.data_type = before.data_type
    /\ \/ after.value = before.value
       \/ /\ before.value.kind = "str"
          /\ after.value = StrValue(EscapeQuotes(before.value.s))
RoundTrips(before, after) ==
    /\ Len(after) = Len(before)
    /\ \A k \in 1..Len(before) : SameUpToEscaping(before[k], after[k])
C21_RoundTrip ==
    (parser_pc = "reparsed" /\ param_text \in KeyValueTexts)
        => RoundTrips(parsed, reparsed)

\* what holds of the round trip: a list in which no value was written N'...',
\* no string value has a backslash at its end or before a single quote and no
\* float is below 1e-4 comes back the same up to the doubling of quotes
BackslashBeforeQuote(value) ==
    /\ value.kind = "str"
    /\ \E i \in 1..Len(value.s) :
        value.s[i] = "\\" /\ (i = Len(value.s) \/ value.s[i + 1] = "'")
InExponentForm(value) ==
    value.kind = "float" /\ \E i \in 1..Len(value.s) : value.s[i] = "e"
SurvivesRoundTrip(param) ==
    /\ param.data_type # "nvarchar"
    /\ ~BackslashBeforeQuote(param.value)
    /\ ~InExponentForm(param.value)
C21_PlainValuesRoundTrip ==
    (/\ parser_pc = "reparsed"
     /\ param_text \in KeyValueTexts
     /\ \A k \in 1..Len(parsed) : SurvivesRoundTrip(parsed[k]))
        => RoundTrips(parsed, reparsed)
\* a list of two parameters, the first a string with a quote in it, came
\* back the same up to the doubling of that quote
C21_EscapedRoundTrip ==
    /\ parser_pc = "reparsed"
    /\ Len(parsed) = 2
    /\ parsed[1].value.kind = "str"
    /\ reparsed[1].value # parsed[1].value
    /\ RoundTrips(parsed, reparsed)

====
